---- MODULE Spec2Model ----
(***************************************************************************)
(* Model of the Corentin coroutine executor.                               *)
(*                                                                         *)
(* Part R models src/src/rework/executor/mod.rs (tick / resume /           *)
(* mark_as_done / cancel), the generational id allocator                   *)
(* src/src/id_alloc.rs, the one-shot result channel and the handle/await   *)
(* futures that the coroutines are written with.                           *)
(***************************************************************************)
EXTENDS Integers, Sequences, FiniteSets, TLC

\* ------------------------------------------------------------------------
\* Bounds of the model
\* ------------------------------------------------------------------------
MaxRoots == 2      \* calls of add_function_coroutine in one behaviour
MaxTicks == 4      \* calls of tick() in one behaviour
MaxDelta == 2      \* largest elapsed time of one frame
GenBits == 3       \* width of Generation::generation in the model (u32 in the code)
MaxIds == 2        \* indices the allocator hands out when it is driven alone
MaxIdOps == 17     \* calls of the allocator when it is driven alone

NoId == [index |-> -1, generation |-> -1]
NoEntity == "none"
Deltas == 1..MaxDelta

\* ------------------------------------------------------------------------
\* Sequence helpers
\* ------------------------------------------------------------------------
SeqTake(s, n) == SubSeq(s, 1, IF n < Len(s) THEN n ELSE Len(s))

RECURSIVE Zeros(_)
Zeros(n) == IF n <= 0 THEN <<>> ELSE <<0>> \o Zeros(n - 1)

MapRemove(m, k) == [x \in (DOMAIN m) \ {k} |-> m[x]]

MapPut(m, k, v) == [x \in (DOMAIN m) \cup {k} |-> IF x = k THEN v ELSE m[x]]

EmptyMap == [x \in {} |-> 0]

\* ------------------------------------------------------------------------
\* Id and Ids (src/src/id_alloc.rs)
\* ------------------------------------------------------------------------
MkId(i, g) == [index |-> i, generation |-> g]

\* order of two ids by their to_bits value (generation in the high half)
BitsLess(a, b) ==
    \/ a.generation < b.generation
    \/ a.generation = b.generation /\ a.index < b.index

MinId(S) == CHOOSE a \in S : \A b \in S \ {a} : BitsLess(a, b)

IdsNew == [meta |-> <<>>, pending |-> <<>>, free_cursor |-> 0, len |-> 0]

\* an allocate_id that leaves the cursor where it was
allocate_id_again(I) ==
    LET n == I.free_cursor
        id == IF n > 0
              THEN MkId(I.pending[n], I.meta[I.pending[n] + 1])
              ELSE MkId(Len(I.meta) - n, 0)
    IN [ids |-> I, id |-> id]

\* allocate_id: reserve one id without flushing
allocate_id(I) ==
    LET n == I.free_cursor
        id == IF n > 0
              THEN MkId(I.pending[n], I.meta[I.pending[n] + 1])
              ELSE MkId(Len(I.meta) - n, 0)
    IN [ids |-> [I EXCEPT !.free_cursor = n - 1], id |-> id]

needs_flush(I) == I.free_cursor # Len(I.pending)

flush(I) ==
    LET fc == I.free_cursor
        newfc == IF fc >= 0 THEN fc ELSE 0
        meta2 == IF fc >= 0 THEN I.meta ELSE I.meta \o Zeros(-fc)
        len2 == IF fc >= 0 THEN I.len ELSE I.len + (-fc)
    IN [meta |-> meta2,
        pending |-> SeqTake(I.pending, newfc),
        free_cursor |-> newfc,
        len |-> len2 + (Len(I.pending) - newfc)]

flush_if_needed(I) == IF needs_flush(I) THEN flush(I) ELSE I

\* meta.generation += 1 on an unsigned integer of GenBits bits
GenLimit == 2 ^ GenBits

\* a free that does not compare the generations
free_unchecked(I, id) ==
    LET J == flush_if_needed(I)
        K == [J EXCEPT !.meta[id.index + 1] = (@ + 1) % GenLimit,
                       !.pending = Append(@, id.index)]
    IN [ids |-> [K EXCEPT !.free_cursor = Len(K.pending), !.len = @ - 1],
        ok |-> J.meta[id.index + 1] = id.generation, overflow |-> FALSE]

\* Ids::free; overflow tells that the generation was at its largest value:
\* the addition panics when overflow checks are compiled in and wraps to 0
\* otherwise (the ids are those of the wrapping build)
free(I, id) ==
    LET J == flush_if_needed(I)
    IN IF J.meta[id.index + 1] # id.generation
       THEN [ids |-> J, ok |-> FALSE, overflow |-> FALSE]
       ELSE LET K == [J EXCEPT !.meta[id.index + 1] = (@ + 1) % GenLimit,
                               !.pending = Append(@, id.index)]
            IN [ids |-> [K EXCEPT !.free_cursor = Len(K.pending), !.len = @ - 1],
                ok |-> TRUE, overflow |-> id.generation + 1 = GenLimit]

\* an alloc_directly that leaves the free list alone and always mints
alloc_directly_mint(I) ==
    LET J == flush_if_needed(I)
        K == [J EXCEPT !.len = @ + 1]
    IN [ids |-> [K EXCEPT !.meta = Append(@, 0)], id |-> MkId(Len(K.meta), 0)]

\* Ids::alloc_directly
alloc_directly(I) ==
    LET J == flush_if_needed(I)
        K == [J EXCEPT !.len = @ + 1]
        n == Len(K.pending)
    IN IF n > 0
       THEN [ids |-> [K EXCEPT !.pending = SubSeq(@, 1, n - 1), !.free_cursor = n - 1],
             id |-> MkId(K.pending[n], K.meta[K.pending[n] + 1])]
       ELSE [ids |-> [K EXCEPT !.meta = Append(@, 0)], id |-> MkId(Len(K.meta), 0)]

resolve_from_id(I, index) ==
    IF index < Len(I.meta)
    THEN MkId(index, I.meta[index + 1])
    ELSE IF I.free_cursor <= 0 /\ index < Len(I.meta) + (-I.free_cursor)
         THEN MkId(index, 0)
         ELSE NoId

contains(I, id) ==
    LET e == resolve_from_id(I, id.index)
    IN e # NoId /\ e.generation = id.generation

\* the bitwise or of two unsigned integers
RECURSIVE BitOr(_, _)
BitOr(a, b) ==
    IF a = 0 THEN b
    ELSE IF b = 0 THEN a
    ELSE 2 * BitOr(a \div 2, b \div 2) + (IF a % 2 = 1 \/ b % 2 = 1 THEN 1 ELSE 0)

\* a to_bits that shifts the generation by one bit too few
to_bits_short(id) ==
    BitOr((id.generation * (GenLimit \div 2)) % (GenLimit * GenLimit), id.index)

\* Id::to_bits: (generation as u64) << 32 | index as u64, a word having
\* GenBits bits and a double word twice as many
to_bits(id) ==
    BitOr((id.generation * GenLimit) % (GenLimit * GenLimit), id.index)

\* Id::from_bits: generation (bits >> 32) as u32, index bits as u32
from_bits(bits) ==
    MkId(bits % GenLimit, (bits \div GenLimit) % GenLimit)

\* ------------------------------------------------------------------------
\* ParentTable (src/src/rework/executor/mod.rs)
\* ------------------------------------------------------------------------
ParentTableNew == [table |-> <<>>, node_map |-> EmptyMap]

\* nodes are 0-based indices into table
add_root(P, c) ==
    LET t == Append(P.table, {})
    IN [pt |-> [table |-> t, node_map |-> MapPut(P.node_map, c, Len(t) - 1)],
        node |-> Len(t) - 1]

\* the set built for the child is dropped: nothing is pushed on the table
add_child(P, parent, child) ==
    LET node == Len(P.table) - 1
    IN [pt |-> [table |-> P.table, node_map |-> MapPut(P.node_map, child, node)],
        node |-> node]

is_parent(P, parent, child) == parent \in P.table[child + 1]

\* ------------------------------------------------------------------------
\* Coroutine bodies.  A body is a list of instructions; the instruction at pc
\* is the future the body is currently awaiting, `halted` is that future's
\* CoroState.
\* ------------------------------------------------------------------------
I(op, n, p) == [op |-> op, n |-> n, p |-> p]

Prog(name) ==
    CASE name = "loop"    -> <<I("tick", 0, ""), I("goto", 1, "")>>
      [] name = "t1"      -> <<I("tick", 0, "")>>
      [] name = "t2"      -> <<I("tick", 0, ""), I("tick", 0, "")>>
      [] name = "d1"      -> <<I("dur", 1, "")>>
      [] name = "d3"      -> <<I("dur", 3, ""), I("tick", 0, "")>>
      [] name = "first"   -> <<I("start", 0, "t1"), I("start", 0, "loop"),
                               I("first", 0, ""), I("tick", 0, "")>>
      [] name = "firstD"  -> <<I("start", 0, "d1"), I("start", 0, "t1"),
                               I("first", 0, ""), I("tick", 0, "")>>
      [] name = "all"     -> <<I("start", 0, "t1"), I("start", 0, "t2"),
                               I("all", 0, ""), I("tick", 0, "")>>
      [] name = "dropper" -> <<I("start", 0, "loop"), I("tick", 0, ""),
                               I("drop", 0, ""), I("tick", 0, ""), I("tick", 0, "")>>
      [] name = "mid"     -> <<I("start", 0, "loop"), I("dur", 3, ""), I("goto", 2, "")>>
      [] name = "nest"    -> <<I("start", 0, "mid"), I("tick", 0, ""), I("tick", 0, "")>>
      [] name = "on"      -> <<I("start", 0, "loop"), I("first", 0, "")>>
      [] name = "nestOn"  -> <<I("start", 0, "on"), I("tick", 0, ""), I("tick", 0, "")>>
      [] name = "lateFirst" -> <<I("start", 0, "t1"), I("start", 0, "loop"),
                                 I("tick", 0, ""), I("tick", 0, ""),
                                 I("first", 0, ""), I("tick", 0, "")>>
      [] name = "lateAll" -> <<I("start", 0, "t1"), I("start", 0, "t2"),
                               I("tick", 0, ""), I("tick", 0, ""),
                               I("all", 0, ""), I("tick", 0, "")>>
      [] OTHER            -> <<>>

\* bodies that await next_tick() at every resume and nothing else
TickOnly == {"loop", "t1", "t2"}

NewCoro(prog, owner, params, sender) ==
    [prog |-> prog, pc |-> 1, halted |-> FALSE, owner |-> owner,
     params |-> params, sender |-> sender, handles |-> <<>>]

\* ------------------------------------------------------------------------
\* History of the run (what the tests observe through their counters)
\* ------------------------------------------------------------------------
Ev(k, id, n, s) == [k |-> k, id |-> id, n |-> n, s |-> s]

Logged(X, k, id, n, s) == [X EXCEPT !.log = Append(@, Ev(k, id, n, s))]

Panic(X, why) == IF X.panic = "" THEN [X EXCEPT !.panic = why] ELSE X

\* ------------------------------------------------------------------------
\* One-shot result channel (once_channel.rs) and CoroHandle (handle.rs)
\* ------------------------------------------------------------------------
INIT == "INIT"
DONE == "DONE"
DROP_SND == "DROP_SND"
DROP_REC == "DROP_REC"
FREED == "FREED"

\* Sender::send_sync
send_sync(X, id) ==
    CASE X.chan[id] = INIT     -> [X EXCEPT !.chan[id] = DONE]
      [] X.chan[id] = DROP_REC -> [X EXCEPT !.chan[id] = FREED]
      [] OTHER                 -> Panic(X, "unreachable")

\* Drop for SyncSender
SenderDrop(X, id) ==
    CASE X.chan[id] = DROP_REC -> [X EXCEPT !.chan[id] = FREED]
      [] X.chan[id] = INIT     -> [X EXCEPT !.chan[id] = DROP_SND]
      [] OTHER                 -> Panic(X, "unreachable")

\* Drop for SyncRec
RecDrop(X, id) ==
    CASE X.chan[id] \in {DROP_SND, DONE} -> [X EXCEPT !.chan[id] = FREED]
      [] X.chan[id] = INIT -> Logged([X EXCEPT !.chan[id] = DROP_REC], "hdrop", id, 0, {})
      [] OTHER -> Panic(X, "unreachable")

\* OnceSender::is_alive
is_alive(X, id) == X.chan[id] # DROP_REC

\* dropping a CoroHandle drops its receiver when it still holds one
DropHandle(X, h) == IF h.st = "Waiting" THEN RecDrop(X, h.id) ELSE X

RECURSIVE DropHandles(_, _)
DropHandles(X, hs) ==
    IF hs = <<>> THEN X ELSE DropHandles(DropHandle(X, Head(hs)), Tail(hs))

\* an update_status that does not look at the channel of a waiting handle
update_status_blind(X, h) ==
    [X |-> X, h |-> h,
     status |-> CASE h.st = "Waiting" -> "StillWaiting"
                  [] h.st = "Done" -> "Done"
                  [] h.st = "Canceled" -> "Canceled"
                  [] OTHER -> "Consumed"]

\* CoroHandle::update_status: the handle's new state and the Status returned
update_status(X, h) ==
    IF h.st = "Waiting"
    THEN CASE X.chan[h.id] = INIT ->
                [X |-> X, h |-> h, status |-> "StillWaiting"]
           [] X.chan[h.id] = DONE ->
                [X |-> RecDrop(X, h.id), h |-> [h EXCEPT !.st = "Done"], status |-> "Done"]
           [] X.chan[h.id] = DROP_SND ->
                [X |-> RecDrop(X, h.id), h |-> [h EXCEPT !.st = "Canceled"],
                 status |-> "Canceled"]
           [] OTHER ->
                [X |-> Panic(X, "unreachable"), h |-> h, status |-> "Canceled"]
    ELSE [X |-> X, h |-> h,
          status |-> CASE h.st = "Done" -> "Done"
                       [] h.st = "Canceled" -> "Canceled"
                       [] OTHER -> "Consumed"]

\* CoroHandle::try_fetch on a handle, TRUE when a value came out
try_fetch(h) ==
    IF h.st = "Done" THEN [h |-> [h EXCEPT !.st = "Finish"], some |-> TRUE]
    ELSE [h |-> h, some |-> FALSE]

\* ------------------------------------------------------------------------
\* Messages a coroutine leaves for the executor while it is polled (msg.rs)
\* ------------------------------------------------------------------------
YieldMsg(id, node, status, n, s) ==
    [id |-> id, node |-> node, status |-> status, n |-> n, s |-> s]

\* Scope::yield_
yield_(X, c, node, status, n, s) ==
    [X EXCEPT !.yield_channel = Append(@, YieldMsg(c, node, status, n, s))]

\* Scope::build_coroutine as used by Scope::try_start: the child has no owner
\* entity, is owned by the scope that starts it, starts now, and reports
\* its result through a fresh one-shot channel
try_start(X, c, node, prog) ==
    LET r == allocate_id(X.ids)
        msg == [id |-> r.id, ran_after |-> node,
                coroutine |-> NewCoro(prog, NoEntity, {}, TRUE),
                is_owned_by |-> c, should_start_now |-> TRUE]
        X1 == [X EXCEPT !.ids = r.ids,
                        !.chan = MapPut(@, r.id, INIT),
                        !.new_coro_channel = Append(@, msg),
                        !.coroutines[c].handles = Append(@, [id |-> r.id, st |-> "Waiting"]),
                        !.meta = MapPut(@, r.id,
                                        [prog |-> prog, owner |-> NoEntity, params |-> {},
                                         parent |-> c, born |-> X.tickNo - 1])]
    IN Logged(X1, "start", r.id, 0, {c})

\* AwaitFirst::poll, Running arm: scan of the handles
RECURSIVE FirstScan(_, _, _, _, _)
FirstScan(X, hs, i, set, done) ==
    IF i > Len(hs)
    THEN [X |-> X, hs |-> hs, set |-> set, done |-> done, bad |-> FALSE]
    ELSE LET r == update_status(X, hs[i])
         IN CASE r.status = "Done" ->
                   FirstScan(r.X,
                             [hs EXCEPT ![i] = IF done THEN r.h ELSE try_fetch(r.h).h],
                             i + 1, set, TRUE)
              [] r.status = "StillWaiting" ->
                   FirstScan(r.X, [hs EXCEPT ![i] = r.h], i + 1, set \cup {r.h.id}, done)
              [] OTHER ->
                   [X |-> r.X, hs |-> [hs EXCEPT ![i] = r.h], set |-> set, done |-> done,
                    bad |-> TRUE]

\* AwaitFirst::poll, Halted arm: the first handle that is Done is fetched
RECURSIVE FirstFetch(_, _, _)
FirstFetch(X, hs, i) ==
    IF i > Len(hs)
    THEN [X |-> X, hs |-> hs, found |-> FALSE]
    ELSE LET r == update_status(X, hs[i])
         IN IF r.status = "Done"
            THEN [X |-> r.X, hs |-> [hs EXCEPT ![i] = try_fetch(r.h).h], found |-> TRUE]
            ELSE FirstFetch(r.X, [hs EXCEPT ![i] = r.h], i + 1)

\* HandleTuple::update_status of a tuple: Status::combine folded left to right
RECURSIVE AllScan(_, _, _, _, _)
AllScan(X, hs, i, status, set) ==
    IF i > Len(hs) \/ status \in {"Canceled", "Consumed"}
    THEN [X |-> X, hs |-> hs, status |-> status, set |-> set]
    ELSE LET r == update_status(X, hs[i])
             hs2 == [hs EXCEPT ![i] = r.h]
         IN CASE r.status = "Done" -> AllScan(r.X, hs2, i + 1, status, set)
              [] r.status = "StillWaiting" ->
                   AllScan(r.X, hs2, i + 1, "StillWaiting", set \cup {r.h.id})
              [] OTHER -> AllScan(r.X, hs2, i + 1, r.status, set)

\* HandleTuple::try_fetch of a tuple
FetchAll(hs) == [i \in DOMAIN hs |-> try_fetch(hs[i]).h]

\* the awaited future returned Ready: it is dropped with the handles it
\* holds and the body goes on with its next instruction
Resolved(X, c, hs) ==
    LET X1 == DropHandles(X, hs)
    IN [X1 EXCEPT !.coroutines[c].handles = <<>>,
                  !.coroutines[c].halted = FALSE,
                  !.coroutines[c].pc = @ + 1]

\* poll of the coroutine's future: runs the body up to its next await
RECURSIVE poll(_, _, _)

\* the child whose value try_fetch took out of its handle
Fetched(hs) == {hs[i].id : i \in {j \in DOMAIN hs : hs[j].st = "Finish"}}

\* Poll::Ready(value) of an AwaitFirst: the body goes on with the value
Ready(X, c, hs, halted) ==
    Logged(Resolved(X, c, hs), "got", c, IF halted THEN 1 ELSE 0, Fetched(hs))

\* AwaitFirst::poll, Halted arm, after the handles were scanned
first_halted(r, c, node) ==
    IF r.found
    THEN poll(Ready(r.X, c, r.hs, TRUE), c, node)
    ELSE Panic([r.X EXCEPT !.coroutines[c].handles = r.hs], "wrong time")

\* AwaitFirst::poll, Running arm, after the handles were scanned
first_running(r, X1, c, node) ==
    CASE r.bad -> yield_(X1, c, node, "Cancel", 0, {})
      [] r.done -> poll(Ready(X1, c, r.hs, FALSE), c, node)
      [] OTHER -> yield_(X1, c, node, "First", 0, r.set)

\* AwaitAll::poll, after update_status of the handle tuple
all_polled(r, X1, halted, c, node) ==
    IF halted
    THEN IF r.status = "Done"
         THEN poll(Resolved(X1, c, FetchAll(r.hs)), c, node)
         ELSE Panic(X1, "unreachable")
    ELSE CASE r.status = "Done" -> poll(Resolved(X1, c, FetchAll(r.hs)), c, node)
           [] r.status = "StillWaiting" ->
                yield_([X1 EXCEPT !.coroutines[c].halted = TRUE], c, node,
                       "All", 0, r.set)
           [] OTHER ->
                yield_([X1 EXCEPT !.coroutines[c].halted = TRUE], c, node,
                       "Cancel", 0, {})

\* the scanned handles are stored back in the future
StoreHandles(r, c, halted) ==
    [r.X EXCEPT !.coroutines[c].handles = r.hs,
                !.coroutines[c].halted = halted]

first_scanned(r, c, node) == first_running(r, StoreHandles(r, c, TRUE), c, node)

all_scanned(r, halted, c, node) ==
    all_polled(r, StoreHandles(r, c, halted), halted, c, node)

\* one await point of the body
poll_ins(X, co, ins, c, node) ==
    CASE ins.op = "tick" ->
           \* NextTick::poll
           IF co.halted
           THEN poll([X EXCEPT !.coroutines[c].halted = FALSE, !.coroutines[c].pc = @ + 1],
                     c, node)
           ELSE yield_([X EXCEPT !.coroutines[c].halted = TRUE], c, node, "Tick", 0, {})
      [] ins.op = "dur" ->
           \* DurationFuture::poll
           IF co.halted
           THEN poll([X EXCEPT !.coroutines[c].halted = FALSE, !.coroutines[c].pc = @ + 1],
                     c, node)
           ELSE yield_([X EXCEPT !.coroutines[c].halted = TRUE], c, node, "Duration",
                       ins.n, {})
      [] ins.op = "start" ->
           poll([try_start(X, c, node, ins.p) EXCEPT !.coroutines[c].pc = @ + 1], c, node)
      [] ins.op = "drop" ->
           poll([DropHandles(X, co.handles) EXCEPT !.coroutines[c].handles = <<>>,
                                                   !.coroutines[c].pc = @ + 1], c, node)
      [] ins.op = "goto" ->
           poll([X EXCEPT !.coroutines[c].pc = ins.n], c, node)
      [] ins.op = "first" ->
           \* AwaitFirst::poll
           IF co.halted
           THEN first_halted(FirstFetch(X, co.handles, 1), c, node)
           ELSE first_scanned(FirstScan(X, co.handles, 1, {}, FALSE), c, node)
      [] ins.op = "all" ->
           \* AwaitAll::poll
           all_scanned(AllScan(X, co.handles, 1, "Done", {}), co.halted, c, node)
      [] OTHER -> X

poll_at(X, co, P, c, node) ==
    IF X.panic # "" THEN X
    ELSE IF co.pc > Len(P)
    THEN [DropHandles(X, co.handles) EXCEPT !.coroutines[c].handles = <<>>, !.ready = TRUE]
    ELSE poll_ins(X, co, P[co.pc], c, node)

poll(X, c, node) == poll_at(X, X.coroutines[c], Prog(X.coroutines[c].prog), c, node)

\* FunctionCoroutine::resume: poll the future, on Ready send the result to
\* the handle and tell the executor Done
\* a resume that drops the result sender without sending the value
send_result_lost(X1, c) ==
    IF X1.coroutines[c].sender
    THEN SenderDrop([X1 EXCEPT !.coroutines[c].sender = FALSE], c)
    ELSE X1

send_result(X1, c) ==
    IF X1.coroutines[c].sender
    THEN send_sync([X1 EXCEPT !.coroutines[c].sender = FALSE], c)
    ELSE X1

polled(X1, c, node) ==
    IF X1.panic # "" \/ ~X1.ready THEN X1
    ELSE yield_(send_result(X1, c), c, node, "Done", 0, {})

Coroutine_resume(X, c, node) ==
    polled(poll(Logged([X EXCEPT !.ready = FALSE], "poll", c, 0, {}), c, node), c, node)

\* ------------------------------------------------------------------------
\* Validity of a coroutine before it is resumed
\* ------------------------------------------------------------------------
\* Rd::is_valid / Wr::is_valid folded over the parameter tuple:
\* true && p1::is_valid && ... ; the empty tuple is always valid
Params_is_valid(W, co) ==
    \A f \in co.params : co.owner # NoEntity /\ W.alive /\ f \in W.comps

\* the variant of the rework snapshot, which accepts every coroutine
is_valid_always(X, c) == TRUE

\* FunctionCoroutine::is_valid
is_valid(X, c) ==
    LET co == X.coroutines[c]
    IN (co.sender => is_alive(X, c)) /\ Params_is_valid(X.world, co)

\* dropping the boxed coroutine: the handles its body holds, then its
\* result sender when the result was never sent
DropCoro(X, id, co) ==
    LET X1 == DropHandles(X, co.handles)
    IN IF co.sender THEN SenderDrop(X1, id) ELSE X1

\* ------------------------------------------------------------------------
\* Executor (src/src/rework/executor/mod.rs)
\* ------------------------------------------------------------------------
RECURSIVE cancel(_, _)
RECURSIVE cancel_each(_, _)

\* cancel every id of S; the set is walked in increasing to_bits order
cancel_each(X, S) ==
    IF S = {} THEN X
    ELSE LET c == MinId(S) IN cancel_each(cancel(X, c), S \ {c})

\* the coroutine leaves the map and is dropped, when it was still there
remove_coro(X, X1, coro_id) ==
    IF coro_id \in DOMAIN X.coroutines
    THEN DropCoro([X1 EXCEPT !.coroutines = MapRemove(@, coro_id)],
                  coro_id, X.coroutines[coro_id])
    ELSE X1

\* the entries of the maps cancel walks through: owned coroutines, awaited
\* coroutines, and the members of the First and All sets
Members(m) == UNION {{<<k, v>> : v \in m[k]} : k \in DOMAIN m}

Entries(X) ==
    Cardinality(Members(X.scope_ownership)) + Cardinality(DOMAIN X.is_awaited_by)
        + Cardinality(Members(X.waiting_on_first))
        + Cardinality(Members(X.waiting_on_all))

\* the head of cancel: the id is freed and the coroutine leaves the map; the
\* history keeps the parent that awaited it, how deep the call is nested
\* and the entries of the maps when it was entered
cancel_self(X, coro_id) ==
    Logged(remove_coro(X, [X EXCEPT !.ids = free(X.ids, coro_id).ids], coro_id),
           "cancel", coro_id, IF coro_id \in DOMAIN X.coroutines THEN 1 ELSE 0,
           (IF coro_id \in DOMAIN X.is_awaited_by
            THEN {[parent |-> X.is_awaited_by[coro_id]]} ELSE {})
               \cup {[depth |-> X.depth, entries |-> Entries(X)]})

\* a cancel that leaves the entry of the parent in is_awaited_by
cancel_parent_kept(X, coro_id) ==
    IF coro_id \in DOMAIN X.is_awaited_by
    THEN cancel(X, X.is_awaited_by[coro_id])
    ELSE X

\* cancel: the parent that awaits the coroutine
cancel_parent(X, coro_id) ==
    IF coro_id \in DOMAIN X.is_awaited_by
    THEN cancel([X EXCEPT !.is_awaited_by = MapRemove(@, coro_id)],
                X.is_awaited_by[coro_id])
    ELSE X

\* cancel: the coroutines it awaits the first of
cancel_first(X5, coro_id) ==
    IF coro_id \in DOMAIN X5.waiting_on_first
    THEN cancel_each([X5 EXCEPT !.waiting_on_first = MapRemove(@, coro_id)],
                     X5.waiting_on_first[coro_id])
    ELSE X5

\* cancel: the coroutines it awaits all of
cancel_all(X6, coro_id) ==
    IF coro_id \in DOMAIN X6.waiting_on_all
    THEN cancel_each([X6 EXCEPT !.waiting_on_all = MapRemove(@, coro_id)],
                     X6.waiting_on_all[coro_id])
    ELSE X6

\* the tail of cancel: whoever awaits the coroutine, and whatever it awaits
cancel_awaits(X, coro_id) ==
    cancel_all(cancel_first(cancel_parent(X, coro_id), coro_id), coro_id)

\* a cancel that forgets the coroutines owned by the scope
cancel_not_owned(X, coro_id) ==
    cancel_awaits([cancel_self(X, coro_id) EXCEPT !.scope_ownership = MapRemove(@, coro_id)],
                  coro_id)

\* cancel and mark_as_done: the coroutines owned by the scope are cancelled
cancel_owned(X3, coro_id) ==
    IF coro_id \in DOMAIN X3.scope_ownership
    THEN cancel_each([X3 EXCEPT !.scope_ownership = MapRemove(@, coro_id)],
                     X3.scope_ownership[coro_id])
    ELSE X3

\* Executor::cancel; depth counts the calls that have not returned
cancel(X, coro_id) ==
    [cancel_awaits(cancel_owned(cancel_self([X EXCEPT !.depth = @ + 1], coro_id),
                                coro_id), coro_id)
        EXCEPT !.depth = @ - 1]

\* losers that are cancelled while they are still awaited
cancel_others_awaited(X, S) == cancel_each(X, S)

\* the losers of a First: each is removed from is_awaited_by, then cancelled
RECURSIVE cancel_others(_, _)
cancel_others(X, S) ==
    IF S = {} THEN X
    ELSE LET o == MinId(S)
         IN cancel_others(cancel([X EXCEPT !.is_awaited_by = MapRemove(@, o)], o),
                          S \ {o})

PushReady(X, id, node) ==
    Logged([X EXCEPT !.ready_coro = Append(@, [id |-> id, node |-> node])],
           "wake", id, 0, {})

\* an All arm that wakes the parent at every completion
done_all_eager(X, coro_id, coro_node, parent) ==
    IF parent \in DOMAIN X.waiting_on_all
    THEN LET others == X.waiting_on_all[parent] \ {coro_id}
             a == add_child(X.parents, coro_node, parent)
             X1 == [X EXCEPT !.parents = a.pt, !.waiting_on_all[parent] = others]
         IN PushReady(X1, parent, a.node)
    ELSE X

\* the All arm of mark_as_done
done_all(X, coro_id, coro_node, parent) ==
    IF parent \in DOMAIN X.waiting_on_all
    THEN LET others == X.waiting_on_all[parent] \ {coro_id}
             a == add_child(X.parents, coro_node, parent)
             X1 == [X EXCEPT !.parents = a.pt, !.waiting_on_all[parent] = others]
         IN IF others = {}
            THEN [PushReady(X1, parent, a.node)
                    EXCEPT !.waiting_on_all = MapRemove(@, parent)]
            ELSE X1
    ELSE X

\* a First arm that lets the losers run on
done_first_keep(X, coro_id, coro_node, parent) ==
    IF parent \in DOMAIN X.waiting_on_first
    THEN LET a == add_child(X.parents, coro_node, parent)
         IN PushReady([X EXCEPT !.waiting_on_first = MapRemove(@, parent),
                                !.parents = a.pt], parent, a.node)
    ELSE X

\* the parent of a finished coroutine runs after it
wake_parent(X1, a, parent) == PushReady([X1 EXCEPT !.parents = a.pt], parent, a.node)

wake_after(X1, coro_node, parent) ==
    wake_parent(X1, add_child(X1.parents, coro_node, parent), parent)

\* the First arm of mark_as_done
done_first(X, coro_id, coro_node, parent) ==
    IF parent \in DOMAIN X.waiting_on_first
    THEN wake_after(cancel_others(Logged([X EXCEPT !.waiting_on_first =
                                                       MapRemove(@, parent)],
                                         "resolved", parent, 0,
                                         X.waiting_on_first[parent] \ {coro_id}),
                                  X.waiting_on_first[parent] \ {coro_id}),
                    coro_node, parent)
    ELSE X

\* mark_as_done: the parent that awaits the coroutine hears of it
done_parent(X3, coro_id, coro_node, parent) ==
    done_all(done_first(X3, coro_id, coro_node, parent), coro_id, coro_node, parent)

\* a mark_as_done that leaves the entry of the finished coroutine in
\* is_awaited_by
done_awaited_kept(X2, coro_id, coro_node) ==
    IF coro_id \in DOMAIN X2.is_awaited_by
    THEN done_parent(X2, coro_id, coro_node, X2.is_awaited_by[coro_id])
    ELSE X2

\* mark_as_done: the entry of the finished coroutine leaves is_awaited_by
done_awaited(X2, coro_id, coro_node) ==
    IF coro_id \in DOMAIN X2.is_awaited_by
    THEN done_parent([X2 EXCEPT !.is_awaited_by = MapRemove(@, coro_id)],
                     coro_id, coro_node, X2.is_awaited_by[coro_id])
    ELSE X2

\* a mark_as_done that leaves the finished coroutine in the map
mark_as_done_keep(X, coro_id, coro_node) ==
    done_awaited(cancel_owned(X, coro_id), coro_id, coro_node)

\* Executor::mark_as_done
mark_as_done(X, coro_id, coro_node) ==
    done_awaited(cancel_owned(DropCoro([X EXCEPT !.coroutines = MapRemove(@, coro_id)],
                                       coro_id, X.coroutines[coro_id]),
                              coro_id),
                 coro_id, coro_node)

\* drains new_coro_channel: every coroutine started during the poll
RECURSIVE take_new(_)
take_new(X) ==
    IF X.new_coro_channel = <<>> THEN X
    ELSE LET m == Head(X.new_coro_channel)
             owned == IF m.is_owned_by \in DOMAIN X.scope_ownership
                      THEN X.scope_ownership[m.is_owned_by] ELSE {}
             a == add_child(X.parents, m.ran_after, m.id)
             X1 == [X EXCEPT !.new_coro_channel = Tail(@),
                             !.coroutines = MapPut(@, m.id, m.coroutine),
                             !.scope_ownership = MapPut(@, m.is_owned_by, owned \cup {m.id})]
         IN take_new(IF m.should_start_now
                     THEN [X1 EXCEPT !.parents = a.pt,
                                     !.ready_coro = Append(@, [id |-> m.id, node |-> a.node])]
                     ELSE X1)

AwaitedBy(X, handlers, id) ==
    [h \in (DOMAIN X.is_awaited_by) \cup handlers |->
        IF h \in handlers THEN id ELSE X.is_awaited_by[h]]

\* a match that does not file the coroutine that waits for the next tick
on_yield_lost(X, m) ==
    CASE m.status = "Done" -> mark_as_done(X, m.id, m.node)
      [] m.status = "Tick" -> X
      [] m.status = "Duration" ->
           [X EXCEPT !.waiting_on_time =
                Append(@, [id |-> m.id, elapsed |-> 0, duration |-> m.n])]
      [] m.status = "First" ->
           [X EXCEPT !.waiting_on_first = MapPut(@, m.id, m.s),
                     !.is_awaited_by = AwaitedBy(X, m.s, m.id)]
      [] m.status = "All" ->
           [X EXCEPT !.waiting_on_all = MapPut(@, m.id, m.s),
                     !.is_awaited_by = AwaitedBy(X, m.s, m.id)]
      [] OTHER -> cancel(X, m.id)

\* the match on the yield message at the end of Executor::resume
on_yield(X, m) ==
    CASE m.status = "Done" -> mark_as_done(X, m.id, m.node)
      [] m.status = "Tick" -> [X EXCEPT !.waiting_on_tick = Append(@, m.id)]
      [] m.status = "Duration" ->
           [X EXCEPT !.waiting_on_time =
                Append(@, [id |-> m.id, elapsed |-> 0, duration |-> m.n])]
      [] m.status = "First" ->
           [X EXCEPT !.waiting_on_first = MapPut(@, m.id, m.s),
                     !.is_awaited_by = AwaitedBy(X, m.s, m.id)]
      [] m.status = "All" ->
           [X EXCEPT !.waiting_on_all = MapPut(@, m.id, m.s),
                     !.is_awaited_by = AwaitedBy(X, m.s, m.id)]
      [] OTHER -> cancel(X, m.id)

\* Executor::resume, the yield message is received and matched
yielded(X2, m) ==
    on_yield(Logged([X2 EXCEPT !.yield_channel = Tail(@)], m.status, m.id, m.n, m.s), m)

receive_yield(X2) ==
    IF X2.yield_channel = <<>> THEN Panic(X2, "unwrap")
    ELSE yielded(X2, Head(X2.yield_channel))

\* Executor::resume, after the coroutine was polled
after_poll(X1) == IF X1.panic # "" THEN X1 ELSE receive_yield(take_new(X1))

\* Executor::resume
resume(X, coro_id, coro_node) ==
    IF ~contains(X.ids, coro_id) THEN X
    ELSE IF coro_id \notin DOMAIN X.coroutines THEN Panic(X, "unwrap")
    ELSE IF ~is_valid(X, coro_id) THEN cancel(X, coro_id)
    ELSE after_poll(Coroutine_resume(X, coro_id, coro_node))

\* a timer that restarts from the last frame at every tick
timer_tick_reset(t, delta) ==
    [t EXCEPT !.elapsed = IF delta >= t.duration THEN t.duration ELSE delta]

\* Timer::tick of a Once timer that has not finished yet
timer_tick(t, delta) ==
    [t EXCEPT !.elapsed = IF t.elapsed + delta >= t.duration
                          THEN t.duration ELSE t.elapsed + delta]

just_finished(t) == t.elapsed >= t.duration

\* a tick that takes a single coroutine out of the tick queue
root_coros_one(X) ==
    LET fin == SelectSeq(X.waiting_on_time, just_finished)
    IN SeqTake(X.waiting_on_tick, 1) \o [i \in DOMAIN fin |-> fin[i].id]

\* the coroutines a tick starts from: the whole tick queue, then the
\* coroutines whose timer finished, in queue order
root_coros(X) ==
    LET fin == SelectSeq(X.waiting_on_time, just_finished)
    IN X.waiting_on_tick \o [i \in DOMAIN fin |-> fin[i].id]

RECURSIVE add_roots(_, _)
add_roots(X, roots) ==
    IF roots = <<>> THEN X
    ELSE LET a == add_root(X.parents, Head(roots))
         IN add_roots([X EXCEPT !.parents = a.pt,
                                !.ready_coro = Append(@, [id |-> Head(roots),
                                                          node |-> a.node])],
                      Tail(roots))

\* the worklist loop of Executor::tick
RECURSIVE run_ready(_)
run_ready(X) ==
    IF X.ready_coro = <<>> \/ X.panic # "" THEN X
    ELSE LET e == Head(X.ready_coro)
         IN run_ready(resume([X EXCEPT !.ready_coro = Tail(@)], e.id, e.node))

NotFinished(t) == ~just_finished(t)

\* Executor::tick, the timers are ticked
tick_timers(X0, delta) ==
    [X0 EXCEPT !.waiting_on_time = [i \in DOMAIN @ |-> timer_tick(@[i], delta)]]

\* Executor::tick, the queues are drained into the worklist
start_roots(X1) ==
    add_roots([X1 EXCEPT !.waiting_on_tick = <<>>,
                         !.waiting_on_time = SelectSeq(@, NotFinished),
                         !.parents = ParentTableNew,
                         !.ready_coro = <<>>],
              root_coros(X1))

\* Executor::tick, the freed ids are flushed
flush_ids(X3) == IF X3.panic # "" THEN X3 ELSE [X3 EXCEPT !.ids = flush(@)]

\* Executor::tick
tick(X, delta) ==
    flush_ids(run_ready(start_roots(tick_timers(Logged(X, "tick", NoId, delta, {}),
                                                delta))))

\* what a tick reads and writes of the executor
ExecutorState(X) ==
    <<X.ids, X.coroutines, X.waiting_on_tick, X.waiting_on_time, X.waiting_on_all,
      X.waiting_on_first, X.scope_ownership, X.is_awaited_by, X.chan>>

\* a tick_until_empty with an if in the place of the while
tick_until_empty_once(X, delta, fuel) ==
    IF X.coroutines = EmptyMap
    THEN [X |-> Logged(X, "returned", NoId, 0, {}), out |-> "returned"]
    ELSE [X |-> Logged(tick([X EXCEPT !.tickNo = @ + 1], delta), "returned", NoId, 0, {}),
          out |-> "returned"]

\* Executor::tick_until_empty: the loop, run for at most fuel iterations.
\* The world is not touched by the loop, so Time::delta() is the same in
\* every iteration, and an iteration that leaves the executor as it found it
\* is repeated for ever.  out is "returned", "diverges", or "undecided" when
\* the fuel ran out first.
RECURSIVE tick_until_empty(_, _, _)
tick_until_empty(X, delta, fuel) ==
    IF X.panic # "" THEN [X |-> X, out |-> "panicked"]
    ELSE IF X.coroutines = EmptyMap
    THEN [X |-> Logged(X, "returned", NoId, 0, {}), out |-> "returned"]
    ELSE IF fuel = 0 THEN [X |-> X, out |-> "undecided"]
    ELSE LET X1 == tick([X EXCEPT !.tickNo = @ + 1], delta)
         IN IF X1.panic = "" /\ ExecutorState(X1) = ExecutorState(X)
            THEN [X |-> Logged(X1, "diverges", NoId, 0, {}), out |-> "diverges"]
            ELSE tick_until_empty(X1, delta, fuel - 1)

\* ========================================================================
\* Part E: the dependency-tracking executor of src/src/executor/mod.rs, with
\* the futures of src/src/coroutine it drives.  One entity e1 with one
\* component F is enough to make writers and change-waiters meet.
\* ========================================================================
\* the resumes of one tick after which the tick is taken not to end
MaxResumes == 16
MaxRootsE == 3     \* calls of add / add_to_entity in one behaviour
MaxFrames == 3     \* calls of tick() in one behaviour

Loc1 == <<"e1", "F">>
Locs == {Loc1}
NoMsg == [k |-> "None"]

\* the bodies registered with the executor:
\*   writer  loop { let mut f = next_tick().then_grab::<&mut F>(e1).await; *f += 1 }
\*   holder  loop { let _f = next_tick().then_grab::<&mut F>(e1).await }
\*   once    { let mut f = next_tick().then_grab::<&mut F>(e1).await; *f += 1 }
\*           loop { next_tick().await }
\*   reader  loop { change::<F>(e1).await }
\*   race    par_or(writer).with(t2).await; next_tick().await
\*   both    par_and(t1).with(d2).await
\*   nested  par_or(inner).with(t1).await
\*   inner   par_or(spin).with(spin).await
\*   spin    loop { next_tick().await }
\*   duel    par_or(t1).with(t2).await; next_tick().await
\*   solo    par_or(t1).await; next_tick().await
\*   ext     std::future::pending::<()>().await
\*   grabext { let mut f = next_tick().then_grab::<&mut F>(e1).await; *f += 1 }
\*           std::future::pending::<()>().await
ProgE(name) ==
    CASE name = "writer" -> <<I("tickgrab", 0, <<>>), I("write", 0, <<>>),
                              I("goto", 1, <<>>)>>
      [] name = "holder" -> <<I("tickgrab", 0, <<>>), I("goto", 1, <<>>)>>
      [] name = "once"   -> <<I("tickgrab", 0, <<>>), I("write", 0, <<>>),
                              I("tick", 0, <<>>), I("goto", 3, <<>>)>>
      [] name = "reader" -> <<I("change", 0, <<>>), I("goto", 1, <<>>)>>
      [] name = "t1"     -> <<I("tick", 0, <<>>)>>
      [] name = "t2"     -> <<I("tick", 0, <<>>), I("tick", 0, <<>>)>>
      [] name = "d2"     -> <<I("dur", 2, <<>>)>>
      [] name = "race"   -> <<I("par_or", 0, <<"writer", "t2">>), I("tick", 0, <<>>)>>
      [] name = "both"   -> <<I("par_and", 0, <<"t1", "d2">>)>>
      [] name = "nested" -> <<I("par_or", 0, <<"inner", "t1">>)>>
      [] name = "inner"  -> <<I("par_or", 0, <<"spin", "spin">>)>>
      [] name = "spin"   -> <<I("tick", 0, <<>>), I("goto", 1, <<>>)>>
      [] name = "duel"   -> <<I("par_or", 0, <<"t1", "t2">>), I("tick", 0, <<>>)>>
      [] name = "solo"   -> <<I("par_or", 0, <<"t1">>), I("tick", 0, <<>>)>>
      [] name = "echo"   -> <<I("tickgrab", 0, <<>>), I("write", 0, <<>>),
                              I("change", 0, <<>>), I("goto", 3, <<>>)>>
      [] name = "ext"    -> <<I("pending", 0, <<>>)>>
      [] name = "grabext" -> <<I("tickgrab", 0, <<>>), I("write", 0, <<>>),
                               I("pending", 0, <<>>)>>
      [] OTHER           -> <<>>

CoroObject(prog) == [prog |-> prog, pc |-> 1, halted |-> FALSE]

\* ------------------------------------------------------------------------
\* The world's change detection, as the executor uses it
\* ------------------------------------------------------------------------
\* World::new() followed by spawn(F): the component is added at tick 1
WorldNew ==
    [alive |-> TRUE, change_tick |-> 1, last_change_tick |-> 0,
     changed |-> [l \in Locs |-> 1]]

\* ComponentTicks::is_changed(world.last_change_tick(), world.change_tick())
is_changed(W, l) ==
    LET ticks_since_insert == W.change_tick - W.changed[l]
        ticks_since_system == W.change_tick - W.last_change_tick
    IN ticks_since_system > ticks_since_insert

\* World::clear_trackers, which the host calls at the end of every frame
clear_trackers(W) ==
    [W EXCEPT !.last_change_tick = W.change_tick, !.change_tick = W.change_tick + 1]

\* DerefMut of the Mut<F> fetched by then_grab: the component is marked changed
deref_mut(W, l) == [W EXCEPT !.changed[l] = W.change_tick]

\* ------------------------------------------------------------------------
\* RunContext (src/src/executor/run_ctx.rs), nodes are 0-based
\* ------------------------------------------------------------------------
RunContextNew ==
    [write_table |-> EmptyMap, parent_table |-> <<>>, current_node_map |-> EmptyMap,
     delayed |-> <<>>]

E_add_child(R, parent) ==
    [R EXCEPT !.parent_table = Append(@, @[parent + 1] \cup {parent})]

E_add_root(R) == [R EXCEPT !.parent_table = Append(@, {})]

\* the node that add_child / add_root just returned
LastNode(R) == Len(R.parent_table) - 1

E_is_parent(R, parent, child) == parent \in R.parent_table[child + 1]

E_add_parent(R, parent, node) ==
    [R EXCEPT !.parent_table[node + 1] = @ \cup {parent} \cup R.parent_table[parent + 1]]

\* Some(writer) as <<writer>>, None as <<>>
can_execute_now(R, node, react_to) ==
    IF react_to \in DOMAIN R.write_table /\ ~E_is_parent(R, R.write_table[react_to], node)
    THEN <<R.write_table[react_to]>>
    ELSE <<>>

\* WriteTable::conflicts
RECURSIVE conflicts(_, _)
conflicts(R, vals) ==
    IF vals = <<>> THEN <<>>
    ELSE (IF Head(vals) \in DOMAIN R.write_table
          THEN <<R.write_table[Head(vals)]>> ELSE <<>>) \o conflicts(R, Tail(vals))

\* ------------------------------------------------------------------------
\* The futures of src/src/coroutine: one poll of a coroutine body
\* ------------------------------------------------------------------------
Msg(k, n, loc, cs) == [k |-> k, n |-> n, loc |-> loc, coroutines |-> cs]

\* what the awaited future sends on yield_sender when it halts
WaitingReason(ins) ==
    CASE ins.op \in {"tick", "tickgrab"} -> Msg("Tick", 0, Loc1, <<>>)
      [] ins.op = "dur"                  -> Msg("Duration", ins.n, Loc1, <<>>)
      [] ins.op = "change"               -> Msg("Changed", 0, Loc1, <<>>)
      [] ins.op = "par_or"               -> Msg("ParOr", 0, Loc1, ins.p)
      [] OTHER                           -> Msg("ParAnd", 0, Loc1, ins.p)

\* GrabCoroutine::poll on Pending: the access of the next resume
GrabReason(ins) ==
    IF ins.op = "tickgrab" THEN [k |-> "Some", writes |-> <<Loc1>>] ELSE NoMsg

\* Future::poll of the body of c: runs until the next await halts (Pending)
\* or the body ends (Ready)
RECURSIVE E_poll(_, _)
E_poll(Y, c) ==
    LET co == Y.coroutines[c]
        body == ProgE(co.prog)
    IN IF co.pc > Len(body) THEN [Y EXCEPT !.result = "Ready"]
       ELSE LET ins == body[co.pc]
                done == [Y EXCEPT !.coroutines[c] =
                             [co EXCEPT !.pc = co.pc + 1, !.halted = FALSE]]
            IN CASE ins.op = "pending" ->
                      \* a future of another library: Pending, and no message
                      Logged([Y EXCEPT !.yield_msg = NoMsg, !.grab_msg = NoMsg,
                                       !.result = "Pending"], "foreign", c, 0, {})
                 [] ins.op = "goto" ->
                      E_poll([Y EXCEPT !.coroutines[c].pc = ins.n], c)
                 [] ins.op = "write" ->
                      E_poll(Logged([done EXCEPT !.world = deref_mut(@, Loc1)],
                                    "write", c, 0, {}), c)
                 [] co.halted /\ ins.op = "tickgrab" ->
                      \* P::fetch(world.get_entity(entity).unwrap())
                      IF Y.world.alive THEN E_poll(done, c) ELSE Panic(Y, "unwrap")
                 [] co.halted -> E_poll(done, c)
                 [] OTHER ->
                      [Y EXCEPT !.coroutines[c].halted = TRUE,
                                !.yield_msg = WaitingReason(ins),
                                !.grab_msg = GrabReason(ins),
                                !.result = "Pending"]

\* ------------------------------------------------------------------------
\* Executor (src/src/executor/mod.rs)
\* ------------------------------------------------------------------------
ExecutorNew ==
    [coroutines |-> EmptyMap, waiting_on_tick |-> <<>>, waiting_on_duration |-> <<>>,
     waiting_on_change |-> EmptyMap, waiting_on_par_or |-> EmptyMap,
     waiting_on_par_and |-> EmptyMap, is_awaited_by |-> EmptyMap, own |-> EmptyMap,
     accesses |-> EmptyMap, next_id |-> 0]

\* Executor::add
add(Y, prog) ==
    LET id == Y.next_id
    IN Logged([Y EXCEPT !.next_id = id + 1,
                        !.coroutines = MapPut(@, id, CoroObject(prog)),
                        !.waiting_on_tick = Append(@, id)],
              "add", id, 0, {prog})

\* Executor::add_to_entity
add_to_entity(Y, entity, prog) ==
    LET id == Y.next_id
    IN Logged([Y EXCEPT !.next_id = id + 1,
                        !.coroutines = MapPut(@, id, CoroObject(prog)),
                        !.waiting_on_tick = Append(@, id),
                        !.own = MapPut(@, entity,
                                       Append(IF entity \in DOMAIN @ THEN @[entity]
                                              ELSE <<>>, id))],
              "add", id, 1, {prog})

\* Executor::cancel
RECURSIVE E_cancel(_, _)
RECURSIVE E_cancel_each(_, _)
E_cancel_each(Y, others) ==
    IF others = <<>> THEN Y
    ELSE E_cancel_each(E_cancel(Y, Head(others)), Tail(others))

\* a cancel that goes down to the awaited coroutines and not up to the parent
E_cancel_down(Y, coroutine) ==
    LET Y1 == Logged([Y EXCEPT !.coroutines = MapRemove(@, coroutine)],
                     "cancel", coroutine, 0, {})
        Y2 == IF coroutine \in DOMAIN Y1.waiting_on_par_or
              THEN E_cancel_each([Y1 EXCEPT !.waiting_on_par_or = MapRemove(@, coroutine)],
                                 Y1.waiting_on_par_or[coroutine])
              ELSE Y1
    IN IF coroutine \in DOMAIN Y2.waiting_on_par_and
       THEN E_cancel_each([Y2 EXCEPT !.waiting_on_par_and = MapRemove(@, coroutine)],
                          Y2.waiting_on_par_and[coroutine])
       ELSE Y2

E_cancel(Y, coroutine) ==
    LET Y1 == Logged([Y EXCEPT !.coroutines = MapRemove(@, coroutine)],
                     "cancel", coroutine, 0, {})
        Y2 == IF coroutine \in DOMAIN Y1.waiting_on_par_or
              THEN E_cancel_each([Y1 EXCEPT !.waiting_on_par_or = MapRemove(@, coroutine)],
                                 Y1.waiting_on_par_or[coroutine])
              ELSE Y1
        Y3 == IF coroutine \in DOMAIN Y2.waiting_on_par_and
              THEN E_cancel_each([Y2 EXCEPT !.waiting_on_par_and = MapRemove(@, coroutine)],
                                 Y2.waiting_on_par_and[coroutine])
              ELSE Y2
    IN IF coroutine \in DOMAIN Y3.is_awaited_by
       THEN E_cancel([Y3 EXCEPT !.is_awaited_by = MapRemove(@, coroutine)],
                     Y3.is_awaited_by[coroutine])
       ELSE Y3

\* the loop over the losers of a ParOr
RECURSIVE cancel_losers(_, _)
cancel_losers(Y, others) ==
    IF others = <<>> THEN Y
    ELSE cancel_losers(E_cancel([Y EXCEPT !.is_awaited_by = MapRemove(@, Head(others))],
                                Head(others)),
                       Tail(others))

\* the loop over the conflicters of Executor::run: the run context, and
\* has_conflicts
RECURSIVE add_conflicts(_, _, _, _)
add_conflicts(R, cs, this_node, resumed) ==
    IF cs = <<>> THEN [run_cx |-> R, has_conflicts |-> FALSE]
    ELSE LET hit == ~resumed \/ ~E_is_parent(R, Head(cs), this_node)
             r == add_conflicts(IF hit THEN E_add_parent(R, Head(cs), this_node) ELSE R,
                                Tail(cs), this_node, resumed)
         IN [r EXCEPT !.has_conflicts = @ \/ hit]

\* index of the first occurrence of c in s, 0 if there is none
Position(s, c) ==
    IF \E i \in DOMAIN s : s[i] = c
    THEN CHOOSE i \in DOMAIN s : s[i] = c /\ \A j \in 1..(i - 1) : s[j] # c
    ELSE 0

RemoveAt(s, i) == SubSeq(s, 1, i - 1) \o SubSeq(s, i + 1, Len(s))

\* the Poll::Ready arm of Executor::run
on_ready(Y, coro) ==
    LET Y1 == Logged([Y EXCEPT !.coroutines = MapRemove(@, coro)], "done", coro, 0, {})
    IN IF coro \notin DOMAIN Y1.is_awaited_by THEN Y1
       ELSE LET parent == Y1.is_awaited_by[coro]
                Y2 == [Y1 EXCEPT !.is_awaited_by = MapRemove(@, coro)]
                Y3 == IF parent \in DOMAIN Y2.waiting_on_par_or
                      THEN Logged([cancel_losers([Y2 EXCEPT !.waiting_on_par_or =
                                                      MapRemove(@, parent)],
                                                 Y2.waiting_on_par_or[parent])
                                   EXCEPT !.waiting_on_tick = Append(@, parent)],
                                  "resolved", parent, coro, {})
                      ELSE Y2
            IN IF parent \notin DOMAIN Y3.waiting_on_par_and THEN Y3
               ELSE LET others == Y3.waiting_on_par_and[parent]
                        index == Position(others, coro)
                    IN IF index = 0 THEN Panic(Y3, "unwrap")
                       ELSE IF RemoveAt(others, index) = <<>>
                       THEN Logged([Y3 EXCEPT !.waiting_on_tick = Append(@, parent),
                                              !.waiting_on_par_and = MapRemove(@, parent)],
                                   "resolved", parent, coro, {})
                       ELSE [Y3 EXCEPT !.waiting_on_par_and[parent] =
                                           RemoveAt(others, index)]

\* the first loop of the ParOr / ParAnd arms: every coroutine of the message
\* gets the next id and is awaited by its parent
new_ids(Y, progs) == [i \in 1..Len(progs) |-> Y.next_id + i - 1]

insert_children(Y, parent, progs) ==
    LET all_ids == new_ids(Y, progs)
        fresh == {all_ids[i] : i \in 1..Len(progs)}
    IN [Y EXCEPT !.next_id = @ + Len(progs),
                 !.coroutines = [x \in (DOMAIN @) \cup fresh |->
                                   IF x \in fresh
                                   THEN CoroObject(progs[x - Y.next_id + 1])
                                   ELSE @[x]],
                 !.is_awaited_by = [x \in (DOMAIN @) \cup fresh |->
                                      IF x \in fresh THEN parent ELSE @[x]]]

RECURSIVE run(_, _, _, _)
RECURSIVE run_nexts(_, _, _)
RECURSIVE detect_writes(_, _, _)
RECURSIVE run_children(_, _, _)

\* the second loop of the ParOr / ParAnd arms
run_children(Y, ids, this_node) ==
    IF ids = <<>> \/ Y.panic # "" THEN Y
    ELSE LET R1 == E_add_child(Y.run_cx, this_node)
         IN run_children(run([Y EXCEPT !.run_cx = R1], Head(ids), LastNode(R1), FALSE),
                         Tail(ids), this_node)

\* the waiters of a written component are run as children of the writer
run_nexts(Y, nexts, this_node) ==
    IF nexts = <<>> \/ Y.panic # "" THEN Y
    ELSE LET c == Head(nexts)
             known == c \in DOMAIN Y.run_cx.current_node_map
             R1 == IF known
                   THEN [E_add_parent(Y.run_cx, this_node, Y.run_cx.current_node_map[c])
                         EXCEPT !.current_node_map = MapRemove(@, c)]
                   ELSE E_add_child(Y.run_cx, this_node)
             node == IF known THEN Y.run_cx.current_node_map[c] ELSE LastNode(R1)
         IN run_nexts(run([Y EXCEPT !.run_cx = R1], c, node, FALSE), Tail(nexts),
                      this_node)

\* the loop over the declared writes whose component is_changed
detect_writes(Y, writes, this_node) ==
    IF writes = <<>> \/ Y.panic # "" THEN Y
    ELSE LET w == Head(writes)
         IN IF ~Y.world.alive THEN Panic(Y, "unwrap")
            ELSE IF ~is_changed(Y.world, w) THEN detect_writes(Y, Tail(writes), this_node)
            ELSE LET Y1 == Logged([Y EXCEPT !.run_cx.write_table =
                                                 MapPut(@, w, this_node)],
                                  "insert", 0, this_node, {w})
                 IN IF w \notin DOMAIN Y1.waiting_on_change
                    THEN detect_writes(Y1, Tail(writes), this_node)
                    ELSE detect_writes(
                             run_nexts([Y1 EXCEPT !.waiting_on_change = MapRemove(@, w)],
                                       Y1.waiting_on_change[w], this_node),
                             Tail(writes), this_node)

\* a missing message taken for a wait of one tick
no_reason_requeue(Y, coro) == [Y EXCEPT !.waiting_on_tick = Append(@, coro)]

\* yield_msg.expect(ERR_WRONGAWAIT) on None
no_reason(Y, coro) == Panic(Y, "ERR_WRONGAWAIT")

\* the Poll::Pending arm of Executor::run
on_pending(Y, coro, this_node, yield_msg, next_access) ==
    LET Y1 == IF next_access.k = "Some"
              THEN [Y EXCEPT !.accesses = MapPut(@, coro, next_access.writes)]
              ELSE Y
        R1 == E_add_child(Y1.run_cx, this_node)
        next_node == LastNode(R1)
        loc == yield_msg.loc
        writer == can_execute_now(R1, next_node, loc)
        \* the history keeps what the yield found: the new node, its
        \* ancestors, and the entry of the write table
        Yc == Logged(Y1, "changed", coro, next_node,
                     {[anc |-> R1.parent_table[next_node + 1],
                       wt |-> IF loc \in DOMAIN R1.write_table
                              THEN <<R1.write_table[loc]>> ELSE <<>>]})
        kids == insert_children(Y1, coro, yield_msg.coroutines)
    IN CASE yield_msg.k = "None" -> no_reason(Y1, coro)
         [] yield_msg.k = "Tick" -> [Y1 EXCEPT !.waiting_on_tick = Append(@, coro)]
         [] yield_msg.k = "Duration" ->
              [Y1 EXCEPT !.waiting_on_duration =
                   Append(@, [id |-> coro, elapsed |-> 0, duration |-> yield_msg.n])]
         [] yield_msg.k = "Changed" ->
              IF writer # <<>>
              THEN run([Yc EXCEPT !.run_cx = E_add_parent(R1, writer[1], next_node)],
                       coro, next_node, FALSE)
              ELSE Logged([Yc EXCEPT
                             !.waiting_on_change =
                                 MapPut(@, loc, Append(IF loc \in DOMAIN @ THEN @[loc]
                                                       ELSE <<>>, coro)),
                             !.run_cx = [R1 EXCEPT !.current_node_map =
                                                       MapPut(@, coro, next_node)]],
                          "wait", coro, 0, {})
         [] yield_msg.k = "ParOr" ->
              run_children([kids EXCEPT !.waiting_on_par_or =
                                MapPut(@, coro, new_ids(Y1, yield_msg.coroutines))],
                           new_ids(Y1, yield_msg.coroutines), this_node)
         [] OTHER ->
              run_children([kids EXCEPT !.waiting_on_par_and =
                                MapPut(@, coro, new_ids(Y1, yield_msg.coroutines))],
                           new_ids(Y1, yield_msg.coroutines), this_node)

\* Executor::run
run(Y, coro, this_node, resumed) ==
    IF Y.panic # "" \/ coro \notin DOMAIN Y.coroutines THEN Y
    ELSE IF Y.resumes >= MaxResumes THEN Panic(Logged(Y, "diverges", coro, 0, {}), "diverges")
    ELSE LET has == coro \in DOMAIN Y.accesses
             writes == IF has THEN Y.accesses[coro] ELSE <<>>
             chk == add_conflicts(Y.run_cx, conflicts(Y.run_cx, writes), this_node,
                                  resumed)
             Y0 == [Y EXCEPT !.run_cx = chk.run_cx]
             Y1 == E_poll(Logged([Y0 EXCEPT !.resumes = @ + 1], "poll", coro,
                                 IF Y.coroutines[coro].halted THEN 1 ELSE 0,
                                 {[node |-> this_node,
                                   anc |-> Y0.run_cx.parent_table[this_node + 1],
                                   table |-> Y0.run_cx.parent_table]}),
                          coro)
             Y2 == detect_writes([Y1 EXCEPT !.yield_msg = NoMsg, !.grab_msg = NoMsg],
                                 writes, this_node)
         IN IF chk.has_conflicts
            THEN [Y0 EXCEPT !.run_cx.delayed =
                               Append(@, [coro_id |-> coro, node |-> this_node])]
            ELSE IF Y2.panic # "" THEN Y2
            ELSE IF Y1.result = "Ready" THEN on_ready(Y2, coro)
            ELSE on_pending(Y2, coro, this_node, Y1.yield_msg, Y1.grab_msg)

\* the two loops at the end of Executor::tick
RECURSIVE run_roots(_, _)
run_roots(Y, roots) ==
    IF roots = <<>> \/ Y.panic # "" THEN Y
    ELSE LET R1 == E_add_root(Y.run_cx)
         IN run_roots(run([Y EXCEPT !.run_cx = R1], Head(roots), LastNode(R1), FALSE),
                      Tail(roots))

RECURSIVE run_delayed(_)
run_delayed(Y) ==
    IF Y.run_cx.delayed = <<>> \/ Y.panic # "" THEN Y
    ELSE LET s == Head(Y.run_cx.delayed)
         IN run_delayed(run([Y EXCEPT !.run_cx.delayed = Tail(@)], s.coro_id, s.node, TRUE))

\* the waiters of every (entity, component) key, in key order
RECURSIVE Waiters(_, _)
Waiters(m, keys) ==
    IF keys = {} THEN <<>>
    ELSE LET k == CHOOSE x \in keys : TRUE
         IN m[k] \o Waiters(m, keys \ {k})

\* Executor::tick
E_tick(Y, delta) ==
    LET Y0 == Logged(Y, "tick", 0, 0, {})
        timers == [i \in DOMAIN Y0.waiting_on_duration |->
                     timer_tick(Y0.waiting_on_duration[i], delta)]
        fin == SelectSeq(timers, just_finished)
        keys == DOMAIN Y0.waiting_on_change
        changed == {k \in keys : Y0.world.alive /\ is_changed(Y0.world, k)}
        gone == {k \in keys : ~Y0.world.alive}
        roots == Y0.waiting_on_tick \o [i \in DOMAIN fin |-> fin[i].id]
                      \o Waiters(Y0.waiting_on_change, changed)
        Y1 == [Y0 EXCEPT !.waiting_on_tick = <<>>,
                         !.waiting_on_duration = SelectSeq(timers, NotFinished),
                         !.waiting_on_change =
                             [k \in keys \ (changed \cup gone) |-> @[k]]]
        Y2 == E_cancel_each(Y1, Waiters(Y0.waiting_on_change, gone))
        Y3 == run_delayed(run_roots([Y2 EXCEPT !.run_cx = RunContextNew], roots))
    IN IF Y3.panic # "" THEN Y3 ELSE Logged(Y3, "end", 0, 0, {})

\* ------------------------------------------------------------------------
\* State of the executor, of the world it runs in, and of the observer
\* ------------------------------------------------------------------------
VARIABLES
    ids,              \* Executor.ids
    coroutines,       \* Executor.coroutines
    waiting_on_tick,  \* Executor.waiting_on_tick
    waiting_on_time,  \* Executor.waiting_on_time
    waiting_on_all,   \* Executor.waiting_on_all
    waiting_on_first, \* Executor.waiting_on_first
    scope_ownership,  \* Executor.scope_ownership
    is_awaited_by,    \* Executor.is_awaited_by
    chan,             \* state of the one-shot channel of each started coroutine
    world,            \* the owner entity: whether it exists, and its components
    panic,            \* "" or the reason the program panicked
    log,              \* history: every event of the run, in order
    meta,             \* history: how each coroutine was created
    tickNo,           \* history: number of tick() calls so far
    nRoots,           \* history: number of add_function_coroutine calls so far
    hung,             \* the host is in a call that does not return
    issued,           \* history of the allocator when it is driven alone; refused
                      \* is the last call when it was a free that returned false
    conv,             \* an id on its way through to_bits and from_bits
    tables,           \* a parent table when it is driven alone, and the last call
    alone,            \* another component when it is driven alone, with its calls
    exec,             \* part E: the Executor resource
    bevy,             \* part E: the World (entity e1, component F, change ticks)
    hist,             \* part E: history of the run
    host              \* part E: what the host application has done so far

varsR == <<ids, coroutines, waiting_on_tick, waiting_on_time, waiting_on_all,
           waiting_on_first, scope_ownership, is_awaited_by, chan, world, panic,
           log, meta, tickNo, nRoots, hung, issued, conv, tables, alone>>

varsE == <<exec, bevy, hist, host>>

\* part E before the host has used it
IdleE ==
    /\ exec = ExecutorNew
    /\ bevy = WorldNew
    /\ hist = <<>>
    /\ host = [adds |-> 0, ticks |-> 0, writes |-> 0, phase |-> "pre", panic |-> ""]

\* the executor as one record, with the locals of tick() and the two
\* message channels, which are empty between two calls
Pack ==
    [ids |-> ids, coroutines |-> coroutines, waiting_on_tick |-> waiting_on_tick,
     waiting_on_time |-> waiting_on_time, waiting_on_all |-> waiting_on_all,
     waiting_on_first |-> waiting_on_first, scope_ownership |-> scope_ownership,
     is_awaited_by |-> is_awaited_by, chan |-> chan, world |-> world,
     panic |-> panic, log |-> log, meta |-> meta, tickNo |-> tickNo,
     ready_coro |-> <<>>, parents |-> ParentTableNew,
     new_coro_channel |-> <<>>, yield_channel |-> <<>>, ready |-> FALSE,
     depth |-> 0]

Unpack(X) ==
    /\ ids' = X.ids
    /\ coroutines' = X.coroutines
    /\ waiting_on_tick' = X.waiting_on_tick
    /\ waiting_on_time' = X.waiting_on_time
    /\ waiting_on_all' = X.waiting_on_all
    /\ waiting_on_first' = X.waiting_on_first
    /\ scope_ownership' = X.scope_ownership
    /\ is_awaited_by' = X.is_awaited_by
    /\ chan' = X.chan
    /\ panic' = X.panic
    /\ log' = X.log
    /\ meta' = X.meta

\* the parameters a coroutine function declares after its scope
Rd(f) == [k |-> "Rd", f |-> f]

Wr(f) == [k |-> "Wr", f |-> f]

\* what the host application registers: body, owner entity, declared
\* parameters
RootConfigs ==
    {[prog |-> "loop", owner |-> NoEntity, params |-> <<>>],
     [prog |-> "t2", owner |-> NoEntity, params |-> <<>>],
     [prog |-> "loop", owner |-> "e1", params |-> <<>>],
     [prog |-> "loop", owner |-> "e1", params |-> <<Wr("f")>>],
     [prog |-> "loop", owner |-> "e1", params |-> <<Rd("f"), Wr("f")>>],
     [prog |-> "loop", owner |-> "e1", params |-> <<Wr("f"), Rd("f")>>],
     [prog |-> "d3", owner |-> NoEntity, params |-> <<>>],
     [prog |-> "first", owner |-> NoEntity, params |-> <<>>],
     [prog |-> "nestOn", owner |-> NoEntity, params |-> <<>>],
     [prog |-> "firstD", owner |-> NoEntity, params |-> <<>>],
     [prog |-> "all", owner |-> NoEntity, params |-> <<>>],
     [prog |-> "dropper", owner |-> NoEntity, params |-> <<>>],
     [prog |-> "lateFirst", owner |-> NoEntity, params |-> <<>>],
     [prog |-> "lateAll", owner |-> NoEntity, params |-> <<>>],
     [prog |-> "nest", owner |-> "e1", params |-> <<Rd("f")>>]}

\* part R before the host has used it
IdleR ==
    /\ ids = IdsNew
    /\ coroutines = EmptyMap
    /\ waiting_on_tick = <<>>
    /\ waiting_on_time = <<>>
    /\ waiting_on_all = EmptyMap
    /\ waiting_on_first = EmptyMap
    /\ scope_ownership = EmptyMap
    /\ is_awaited_by = EmptyMap
    /\ chan = EmptyMap
    /\ world = [alive |-> TRUE, comps |-> {"f"}]
    /\ panic = ""
    /\ log = <<>>
    /\ meta = EmptyMap
    /\ tickNo = 0
    /\ nRoots = 0
    /\ hung = FALSE
    /\ issued = [live |-> {}, freed |-> {}, since |-> <<>>, relive |-> FALSE,
                 seen |-> FALSE, wrapped |-> FALSE, halted |-> FALSE, calls |-> 0,
                 refused |-> <<>>, taken |-> <<>>]

\* no id is being converted
NoConv == [id |-> NoId, bits |-> -1, back |-> NoId]

\* no parent table is driven alone
NoTables == [impl |-> "", pt |-> <<>>, grown |-> FALSE, last |-> <<>>]

\* no other component is driven alone
NoAlone == [kind |-> ""]

InitR == IdleR /\ IdleE /\ conv = NoConv /\ tables = NoTables /\ alone = NoAlone

\* CoroAccess::default
CoroAccessNew == [reads |-> {}, writes |-> {}]

\* an add_write that does not look at the reads
add_write_any(A, to, component) ==
    [access |-> [A EXCEPT !.writes = @ \cup {<<to, component>>}],
     ok |-> <<to, component>> \notin A.writes]

\* CoroAccess::add_write: the access, and whether the write was accepted
add_write(A, to, component) ==
    IF <<to, component>> \in A.reads THEN [access |-> A, ok |-> FALSE]
    ELSE [access |-> [A EXCEPT !.writes = @ \cup {<<to, component>>}],
          ok |-> <<to, component>> \notin A.writes]

\* an add_read that does not look at the writes
add_read_any(A, to, component) ==
    [access |-> [A EXCEPT !.reads = @ \cup {<<to, component>>}], ok |-> TRUE]

\* CoroAccess::add_read
add_read(A, to, component) ==
    IF <<to, component>> \in A.writes THEN [access |-> A, ok |-> FALSE]
    ELSE [access |-> [A EXCEPT !.reads = @ \cup {<<to, component>>}], ok |-> TRUE]

\* Rd::init / Wr::init: the component type is registered, the coroutine has
\* an owner, and the access is accepted
Param_init(A, owner, p) ==
    IF owner = NoEntity THEN [access |-> A, ok |-> FALSE]
    ELSE IF p.k = "Rd" THEN add_read(A, owner, p.f)
    ELSE add_write(A, owner, p.f)

\* CoroParam::init of the parameter tuple: every parameter in turn, None at
\* the first that fails
RECURSIVE Tuple_init(_, _, _)
Tuple_init(A, owner, ps) ==
    IF ps = <<>> THEN TRUE
    ELSE LET r == Param_init(A, owner, Head(ps))
         IN r.ok /\ Tuple_init(r.access, owner, Tail(ps))

Params_init(cfg) == Tuple_init(CoroAccessNew, cfg.owner, cfg.params)

\* the fields the parameters of a coroutine refer to
Fields(ps) == {ps[i].f : i \in DOMAIN ps}

\* Executor::add_function_coroutine followed by Executor::add_coroutine
add_function_coroutine(X, cfg) ==
    LET r == allocate_id(X.ids)
        X1 == [X EXCEPT !.ids = r.ids]
    IN IF ~Params_init(cfg) THEN Logged(X1, "add", r.id, 0, {cfg})
       ELSE Logged([X1 EXCEPT
                      !.coroutines = MapPut(@, r.id,
                                            NewCoro(cfg.prog, cfg.owner, Fields(cfg.params),
                                                    FALSE)),
                      !.waiting_on_tick = Append(@, r.id),
                      !.meta = MapPut(@, r.id,
                                      [prog |-> cfg.prog, owner |-> cfg.owner,
                                       params |-> Fields(cfg.params), parent |-> NoId,
                                       born |-> X.tickNo])],
                   "add", r.id, 1, {cfg})

AddFunctionCoroutine ==
    /\ panic = "" /\ ~hung
    /\ nRoots < MaxRoots
    /\ \E cfg \in RootConfigs : Unpack(add_function_coroutine(Pack, cfg))
    /\ nRoots' = nRoots + 1
    /\ UNCHANGED <<world, tickNo, hung, issued, conv, tables, alone>>
    /\ UNCHANGED varsE

\* the frame times worth telling apart: Time::delta() is only read to tick
\* the timers, so with no timer running one value stands for all
FrameDeltas(timers) == IF timers = <<>> THEN {1} ELSE Deltas

Tick ==
    /\ panic = "" /\ ~hung
    /\ tickNo < MaxTicks
    /\ \E delta \in FrameDeltas(waiting_on_time) :
         Unpack(tick([Pack EXCEPT !.tickNo = tickNo + 1], delta))
    /\ tickNo' = tickNo + 1
    /\ UNCHANGED <<world, nRoots, hung, issued, conv, tables, alone>>
    /\ UNCHANGED varsE

\* the frame times of a call of tick_until_empty: zero when the clock of the
\* world was never advanced, as in the tests of the repository
LoopDeltas == 0..MaxDelta

\* no timer ran during the events of the log from position from on
Timeless(X, from) ==
    /\ X.waiting_on_time = <<>>
    /\ \A i \in from..Len(X.log) : X.log[i].k # "Duration"

\* the host calls tick_until_empty; the call is followed as far as MaxTicks
\* calls of tick in all
TickUntilEmpty ==
    /\ panic = "" /\ ~hung
    /\ tickNo < MaxTicks
    /\ coroutines # EmptyMap
    /\ \E delta \in LoopDeltas :
         LET r == tick_until_empty(Logged(Pack, "until", NoId, delta, {}), delta,
                                   MaxTicks - tickNo)
         IN /\ r.out # "undecided"
            /\ waiting_on_time # <<>> \/ ~Timeless(r.X, Len(log) + 1) \/ delta = 1
            /\ Unpack(r.X)
            /\ tickNo' = r.X.tickNo
            /\ hung' = (r.out = "diverges")
    /\ UNCHANGED <<world, nRoots, issued, conv, tables, alone>>
    /\ UNCHANGED varsE

\* the live coroutines that belong to the entity
Owned == {c \in DOMAIN coroutines : coroutines[c].owner # NoEntity}

\* the host despawns the owner entity between two ticks
Despawn ==
    /\ panic = "" /\ ~hung
    /\ world.alive
    /\ Owned # {}
    /\ world' = [alive |-> FALSE, comps |-> {}]
    /\ log' = Append(log, Ev("despawn", NoId, 0, {}))
    /\ UNCHANGED <<ids, coroutines, waiting_on_tick, waiting_on_time, waiting_on_all,
                   waiting_on_first, scope_ownership, is_awaited_by, chan, panic, meta,
                   tickNo, nRoots, hung, issued, conv, tables, alone>>
    /\ UNCHANGED varsE

\* the host removes the field from the owner entity between two ticks
RemoveComponent ==
    /\ panic = "" /\ ~hung
    /\ "f" \in world.comps
    /\ Owned # {}
    /\ world' = [world EXCEPT !.comps = @ \ {"f"}]
    /\ log' = Append(log, Ev("remove", NoId, 0, {}))
    /\ UNCHANGED <<ids, coroutines, waiting_on_tick, waiting_on_time, waiting_on_all,
                   waiting_on_first, scope_ownership, is_awaited_by, chan, panic, meta,
                   tickNo, nRoots, hung, issued, conv, tables, alone>>
    /\ UNCHANGED varsE

NextR == AddFunctionCoroutine \/ Tick \/ TickUntilEmpty \/ Despawn \/ RemoveComponent

SpecR == InitR /\ [][NextR]_<<varsR, varsE>>

\* ------------------------------------------------------------------------
\* Reading the history
\* ------------------------------------------------------------------------
Is(i, k) == log[i].k = k

IsOf(i, k, id) == log[i].k = k /\ log[i].id = id

\* the number of the tick() call during which event i happened
TickOf(i) == Cardinality({t \in 1..i : Is(t, "tick")})

\* the events of coroutine id of kind k that follow event i
After(i, k, id) == {j \in DOMAIN log : j > i /\ IsOf(j, k, id)}

PollsOf(id) == {j \in DOMAIN log : IsOf(j, "poll", id)}

PollsInTick(id, t) == Cardinality({j \in PollsOf(id) : TickOf(j) = t})

\* id was removed from the live map by a cancel
WasCancelled(id) == \E j \in DOMAIN log : IsOf(j, "cancel", id) /\ log[j].n = 1

WasDone(id) == \E j \in DOMAIN log : IsOf(j, "Done", id)

\* time elapsed over the tick() calls that started after event i, up to event j
RECURSIVE Elapsed(_, _)
Elapsed(i, j) ==
    IF j <= i THEN 0
    ELSE (IF Is(j, "tick") THEN log[j].n ELSE 0) + Elapsed(i, j - 1)

\* ------------------------------------------------------------------------
\* C1: a coroutine that awaits next_tick() at every resume, and that nobody
\* cancels, is resumed exactly once in each tick() call that follows its
\* creation until it has finished, and in no tick() call after that: after
\* N ticks it has been resumed N times, capped by the length of its body.
\* ------------------------------------------------------------------------
\* whether the body never returns, and the number of awaits of one that does
Loops(prog) == \E i \in DOMAIN Prog(prog) : Prog(prog)[i].op = "goto"

Awaits(prog) == Cardinality({i \in DOMAIN Prog(prog) : Prog(prog)[i].op = "tick"})

C1_OncePerTick ==
    \A id \in DOMAIN meta :
        (meta[id].prog \in TickOnly /\ ~WasCancelled(id)) =>
            \A t \in 1..tickNo :
                PollsInTick(id, t) =
                    (IF /\ t > meta[id].born
                        /\ (Loops(meta[id].prog) \/ t - meta[id].born <= Awaits(meta[id].prog) + 1)
                     THEN 1 ELSE 0)

\* a two-tick coroutine has finished at its third resume and a further
\* tick has gone by
C1_Witness ==
    \E id \in DOMAIN meta :
        /\ meta[id].prog = "t2" /\ meta[id].parent = NoId
        /\ WasDone(id)
        /\ Cardinality(PollsOf(id)) = 3
        /\ tickNo >= meta[id].born + 4

\* ------------------------------------------------------------------------
\* C2: when a coroutine awaits first(S) and a member of S is the first to
\* finish, the awaiting coroutine is resumed later in that same tick, and
\* no other member of S is resumed after that completion, neither in
\* that tick nor in a later one.
\* ------------------------------------------------------------------------
\* event j is the completion that wins the First awaited at event i
Wins(i, j) ==
    /\ Is(i, "First") /\ Is(j, "Done") /\ j > i
    /\ log[j].id \in log[i].s
    /\ \A m \in (i + 1)..(j - 1) : ~(Is(m, "Done") /\ log[m].id \in log[i].s)
    /\ \A m \in (i + 1)..(j - 1) : ~IsOf(m, "poll", log[i].id)

C2_FirstResolvesAndCancels ==
    \A i, j \in DOMAIN log :
        Wins(i, j) =>
            /\ \E k \in After(j, "poll", log[i].id) : TickOf(k) = TickOf(j)
            /\ \A b \in log[i].s \ {log[j].id} : After(j, "poll", b) = {}

\* the fast branch has won against a branch that loops for ever, and two
\* more ticks have gone by
C2_Witness ==
    \E i, j \in DOMAIN log :
        /\ Wins(i, j)
        /\ \E b \in log[i].s : meta[b].prog = "loop"
        /\ tickNo >= TickOf(j) + 2

\* ------------------------------------------------------------------------
\* C3: a coroutine that awaits all(S) is not resumed before every member of
\* S has finished, and it is resumed exactly once in the tick in which the
\* last of them finishes.
\* ------------------------------------------------------------------------
\* the completions of the members of the All awaited at event i
DonesOf(i) == {j \in DOMAIN log : j > i /\ Is(j, "Done") /\ log[j].id \in log[i].s}

MaxOf(S) == CHOOSE x \in S : \A y \in S : y <= x

C3_AllResumesOnLast ==
    \A i \in DOMAIN log :
        Is(i, "All") =>
            /\ \A k \in After(i, "poll", log[i].id) :
                   \A c \in log[i].s : \E j \in DonesOf(i) : j < k /\ log[j].id = c
            /\ (\A c \in log[i].s : \E j \in DonesOf(i) : log[j].id = c) =>
                   Cardinality({k \in After(MaxOf(DonesOf(i)), "poll", log[i].id) :
                                    TickOf(k) = TickOf(MaxOf(DonesOf(i)))}) = 1

\* both awaited coroutines have finished, in different ticks
C3_Witness ==
    \E i \in DOMAIN log :
        /\ Is(i, "All")
        /\ \A c \in log[i].s : \E j \in DonesOf(i) : log[j].id = c
        /\ \E j1, j2 \in DonesOf(i) : TickOf(j1) < TickOf(j2)
        /\ tickNo > TickOf(MaxOf(DonesOf(i)))

\* ------------------------------------------------------------------------
\* C5: once cancel(id) has returned, neither id nor any coroutine that id
\* owns, directly or through the coroutines it owns, is in the live map,
\* and none of them is resumed afterwards.
\* ------------------------------------------------------------------------
\* a is the scope that started c, or the scope that started its starter, ...
RECURSIVE OwnedBy(_, _)
OwnedBy(c, a) ==
    /\ meta[c].parent # NoId
    /\ (meta[c].parent = a \/ OwnedBy(meta[c].parent, a))

C5_CancelCascades ==
    \A i \in DOMAIN log :
        Is(i, "cancel") =>
            /\ log[i].id \notin DOMAIN coroutines
            /\ \A c \in DOMAIN coroutines : ~OwnedBy(c, log[i].id)
            /\ \A k \in DOMAIN log :
                   (k > i /\ Is(k, "poll")) =>
                       (log[k].id # log[i].id /\ ~OwnedBy(log[k].id, log[i].id))

\* a running coroutine that owns a child which owns a grandchild has been
\* cancelled, and a tick has gone by since
C5_Witness ==
    \E i \in DOMAIN log :
        /\ Is(i, "cancel") /\ log[i].n = 1
        /\ meta[log[i].id].prog = "nest"
        /\ \E c, g \in DOMAIN meta :
               /\ meta[c].parent = log[i].id /\ meta[g].parent = c
               /\ PollsOf(c) # {} /\ PollsOf(g) # {}
        /\ tickNo > TickOf(i)

\* ------------------------------------------------------------------------
\* C6: a coroutine that has returned Done is out of the live map and is
\* never resumed again; no queue entry makes the executor look it up.
\* ------------------------------------------------------------------------
C6_NoResumeAfterDone ==
    /\ panic # "unwrap"
    /\ \A i \in DOMAIN log :
           Is(i, "Done") =>
               /\ log[i].id \notin DOMAIN coroutines
               /\ After(i, "poll", log[i].id) = {}

\* a finished coroutine whose id the allocator still holds, a tick later
C6_Witness ==
    \E i \in DOMAIN log :
        /\ Is(i, "Done")
        /\ contains(ids, log[i].id)
        /\ tickNo > TickOf(i)

\* ------------------------------------------------------------------------
\* C8: a coroutine that yields Duration(d) is not resumed as long as the
\* time elapsed over the later ticks is below d, and, unless it is cancelled
\* first, it is resumed exactly once in the first tick where that time
\* reaches d.
\* ------------------------------------------------------------------------
C8_DurationWakes ==
    \A i \in DOMAIN log :
        Is(i, "Duration") =>
            /\ \A k \in After(i, "poll", log[i].id) : Elapsed(i, k) >= log[i].n
            /\ \A t \in DOMAIN log :
                   ( /\ t > i /\ Is(t, "tick")
                     /\ Elapsed(i, t) >= log[i].n /\ Elapsed(i, t - 1) < log[i].n
                     /\ \A m \in After(i, "cancel", log[i].id) : TickOf(m) > TickOf(t) )
                   => PollsInTick(log[i].id, TickOf(t)) = 1

\* a three-unit wait went through a tick that was too short and ended in
\* the next one
C8_Witness ==
    \E i \in DOMAIN log :
        /\ Is(i, "Duration") /\ log[i].n = 3
        /\ \E k \in After(i, "poll", log[i].id) :
               TickOf(k) = TickOf(i) + 2 /\ Elapsed(i, k) = 3

OwnerInvalidBefore(k, m) ==
    /\ m.owner # NoEntity
    /\ \E i \in 1..(k - 1) : Is(i, "despawn") \/ (Is(i, "remove") /\ "f" \in m.params)

C7_InvalidOwnerNeverResumed ==
    \A k \in DOMAIN log :
        Is(k, "poll") => ~OwnerInvalidBefore(k, meta[log[k].id])

\* ------------------------------------------------------------------------
\* C9: among the coroutines awaited by one First or All, whenever one is
\* resumed in a tick, every one declared before it that is ready in that
\* tick has already been resumed in that tick; so a later-declared winner
\* finishes only after the earlier-declared ready ones have run.
\* ------------------------------------------------------------------------
StartOf(c) == CHOOSE i \in DOMAIN log : IsOf(i, "start", c)

\* the event that opens the tick() call during which event k happens
TickStart(k) == MaxOf({t \in 1..k : Is(t, "tick")})

\* the last message coroutine a yielded before event k
LastYield(a, k) ==
    LET ys == {y \in 1..(k - 1) : log[y].id = a /\ log[y].k \in {"Tick", "Duration"}}
    IN IF ys = {} THEN 0 ELSE MaxOf(ys)

\* when the tick of event k starts, coroutine a waits for that tick or for
\* a duration that this tick completes, and a is not cancelled before k
ReadyIn(a, k) ==
    LET ts == TickStart(k)
        y == LastYield(a, ts)
    IN /\ y # 0
       /\ After(y, "poll", a) \cap 1..ts = {}
       /\ After(y, "cancel", a) \cap 1..k = {}
       /\ (Is(y, "Tick") \/ Elapsed(y, ts) >= log[y].n)

C9_DeclarationOrder ==
    \A i \in DOMAIN log :
        Is(i, "First") \/ Is(i, "All") =>
            \A a, b \in log[i].s :
                StartOf(a) < StartOf(b) =>
                    \A kb \in After(i, "poll", b) :
                        ReadyIn(a, kb) =>
                            \E ka \in After(i, "poll", a) :
                                ka < kb /\ TickOf(ka) = TickOf(kb)

\* ------------------------------------------------------------------------
\* C11: a coroutine that awaits First or All of children of which one has
\* already finished never waits on the finished one: the set it yields, and
\* the sets the executor keeps, hold no finished coroutine; a First with a
\* finished child does not wait at all, and every coroutine found in a
\* waiting set between two ticks is still live.
\* ------------------------------------------------------------------------
DoneBefore(c, i) == \E j \in 1..i : IsOf(j, "Done", c)

ChildrenOf(p) == {c \in DOMAIN meta : meta[c].parent = p}

C11_NoWaitOnFinished ==
    /\ \A i \in DOMAIN log :
          Is(i, "First") \/ Is(i, "All") =>
              \A c \in log[i].s : ~DoneBefore(c, i)
    /\ \A i \in DOMAIN log :
          Is(i, "First") => \A c \in ChildrenOf(log[i].id) : ~DoneBefore(c, i)
    /\ \A p \in DOMAIN waiting_on_first :
          \A c \in waiting_on_first[p] : c \in DOMAIN coroutines /\ ~WasDone(c)
    /\ \A p \in DOMAIN waiting_on_all :
          \A c \in waiting_on_all[p] : c \in DOMAIN coroutines /\ ~WasDone(c)

\* an All yielded after one child finished leaves that child out, and a
\* First polled after one child finished has gone on to its next await
C11_Witness ==
    /\ \E i \in DOMAIN log :
          /\ Is(i, "All")
          /\ log[i].s # {}
          /\ \E c \in ChildrenOf(log[i].id) : DoneBefore(c, i) /\ c \notin log[i].s
    /\ \E p \in DOMAIN meta :
          /\ meta[p].prog = "lateFirst"
          /\ Cardinality({j \in DOMAIN log : IsOf(j, "Tick", p)}) = 3
          /\ \E c \in ChildrenOf(p) : WasDone(c)

\* ------------------------------------------------------------------------
\* C12: when a coroutine that waits on First is resumed, its await
\* evaluates to the value of the first awaited child that finished after
\* the First was yielded; a First that resolves without waiting evaluates
\* to the value of a child that has finished.
\* ------------------------------------------------------------------------
\* the last message coroutine p yielded before event k
PrevYield(p, k) ==
    LET ys == {y \in 1..(k - 1) :
                 log[y].id = p /\ log[y].k \in {"Tick", "Duration", "First", "All"}}
    IN IF ys = {} THEN 0 ELSE MaxOf(ys)

\* the first event after i at which a coroutine of S finishes, 0 if none
FirstDone(S, i) ==
    LET ds == {d \in DOMAIN log : d > i /\ Is(d, "Done") /\ log[d].id \in S}
    IN IF ds = {} THEN 0 ELSE CHOOSE d \in ds : \A e \in ds : d <= e

C12_FirstYieldsWinnerValue ==
    /\ \A k \in DOMAIN log :
          Is(k, "poll") /\ PrevYield(log[k].id, k) # 0
                        /\ Is(PrevYield(log[k].id, k), "First") =>
              LET y == PrevYield(log[k].id, k)
                  d == FirstDone(log[y].s, y)
              IN /\ d # 0 /\ d < k
                 /\ k < Len(log)
                 /\ IsOf(k + 1, "got", log[k].id)
                 /\ log[k + 1].s = {log[d].id}
    /\ \A j \in DOMAIN log :
          Is(j, "got") => \E c \in log[j].s : c \in ChildrenOf(log[j].id) /\ DoneBefore(c, j)

C12_Witness ==
    \E j \in DOMAIN log :
        /\ Is(j, "got") /\ log[j].n = 1
        /\ \E c \in ChildrenOf(log[j].id) : c \notin log[j].s /\ WasCancelled(c)
        /\ \E t \in DOMAIN log : t > j /\ IsOf(t, "Tick", log[j].id)

\* ------------------------------------------------------------------------
\* C14: add_function_coroutine with parameters that read and exclusively
\* write the same field of the owner builds no coroutine: the id it took is
\* never in the live map nor in a queue, it is never polled, and nothing
\* panics.
\* ------------------------------------------------------------------------
Conflicting(ps) ==
    \E i, j \in DOMAIN ps : ps[i].k = "Rd" /\ ps[j].k = "Wr" /\ ps[i].f = ps[j].f

\* the calls of add_function_coroutine with conflicting parameters
ConflictingAdds ==
    {i \in DOMAIN log : Is(i, "add") /\ \E cfg \in log[i].s : Conflicting(cfg.params)}

InQueues(c) ==
    \/ \E i \in DOMAIN waiting_on_tick : waiting_on_tick[i] = c
    \/ \E i \in DOMAIN waiting_on_time : waiting_on_time[i].id = c
    \/ c \in DOMAIN waiting_on_first \/ c \in DOMAIN waiting_on_all
    \/ c \in DOMAIN is_awaited_by \/ c \in DOMAIN scope_ownership

C14_ConflictingParamsBuildNothing ==
    \A i \in ConflictingAdds :
        /\ log[i].n = 0
        /\ log[i].id \notin DOMAIN coroutines
        /\ ~InQueues(log[i].id)
        /\ PollsOf(log[i].id) = {}
        /\ panic = ""

\* both orders of the two parameters were tried, and the executor went on
\* to run a tick with another coroutine
C14_Witness ==
    /\ \E i, j \in ConflictingAdds :
          \E a \in log[i].s, b \in log[j].s : a.params[1].k = "Rd" /\ b.params[1].k = "Wr"
    /\ \E t \in DOMAIN log : Is(t, "tick")

\* ------------------------------------------------------------------------
\* C15: the access set is built per coroutine.  As stated (the second of two
\* coroutines of one entity, one writing and one reading the same field, is
\* rejected, so the two are never both live) the property does not hold.
\* What holds: a coroutine is rejected exactly when its own parameters
\* conflict or name a field without an owner; a writer and a reader of the
\* same field of one entity are both constructed.
\* ------------------------------------------------------------------------
Declares(ps, k, f) == \E i \in DOMAIN ps : ps[i].k = k /\ ps[i].f = f

\* a constructed writer of a field, then a call for a reader of the same
\* field of the same entity, or the other way round
WriterAndReader(i, j) ==
    /\ Is(i, "add") /\ Is(j, "add") /\ i < j /\ log[i].n = 1
    /\ \E a \in log[i].s, b \in log[j].s :
          /\ a.owner # NoEntity /\ a.owner = b.owner
          /\ \/ Declares(a.params, "Wr", "f") /\ Declares(b.params, "Rd", "f")
             \/ Declares(a.params, "Rd", "f") /\ Declares(b.params, "Wr", "f")

SpawnedBefore(i) ==
    {log[j].id : j \in {s \in 1..(i - 1) : \/ Is(s, "add") /\ log[s].n = 1
                                          \/ Is(s, "start")}}

EndedBefore(c, i) ==
    \E j \in 1..(i - 1) : IsOf(j, "Done", c) \/ (IsOf(j, "cancel", c) /\ log[j].n = 1)

TakenByLastTick ==
    {log[i].id : i \in {s \in DOMAIN log :
                           \/ Is(s, "start")
                           \/ Is(s, "add") /\ \E t \in (s + 1)..Len(log) : Is(t, "tick")}}

C22_FreedWhenGone ==
    panic = "" =>
        /\ \A i \in DOMAIN log :
              (Is(i, "Done") \/ (Is(i, "cancel") /\ log[i].n = 1))
                  => ~contains(ids, log[i].id)
        /\ \A id \in TakenByLastTick :
              contains(ids, id) => id \in DOMAIN coroutines

\* what the code keeps: a cancelled coroutine has its id freed, and an id
\* that is out of the allocator is out of the live map
C22_CancelFrees ==
    panic = "" =>
        /\ \A i \in DOMAIN log :
              (Is(i, "cancel") /\ log[i].n = 1) => ~contains(ids, log[i].id)
        /\ \A id \in DOMAIN coroutines : contains(ids, id)

\* ------------------------------------------------------------------------
\* Part E as a state machine.  The host runs frames: its systems and its
\* calls of add come first, then Executor::tick, then World::clear_trackers.
\* ------------------------------------------------------------------------
MaxSystemWrites == 1   \* writes of F by systems of the host in one behaviour
LastAddFrame == 0      \* the host registers coroutines up to this frame

InitE == InitR

PackE ==
    [coroutines |-> exec.coroutines, waiting_on_tick |-> exec.waiting_on_tick,
     waiting_on_duration |-> exec.waiting_on_duration,
     waiting_on_change |-> exec.waiting_on_change,
     waiting_on_par_or |-> exec.waiting_on_par_or,
     waiting_on_par_and |-> exec.waiting_on_par_and,
     is_awaited_by |-> exec.is_awaited_by, own |-> exec.own,
     accesses |-> exec.accesses, next_id |-> exec.next_id,
     run_cx |-> RunContextNew, yield_msg |-> NoMsg, grab_msg |-> NoMsg, result |-> "",
     world |-> bevy, log |-> hist, panic |-> host.panic, resumes |-> 0]

UnpackE(Y) ==
    /\ exec' = [f \in DOMAIN ExecutorNew |-> Y[f]]
    /\ bevy' = Y.world
    /\ hist' = Y.log

RootProgsE ==
    {"writer", "holder", "once", "reader", "race", "both", "ext", "grabext", "nested",
     "echo"}

Add ==
    /\ host.panic = "" /\ host.phase = "pre"
    /\ host.adds < MaxRootsE /\ host.ticks <= LastAddFrame
    /\ \E prog \in RootProgsE : UnpackE(add(PackE, prog))
    /\ host' = [host EXCEPT !.adds = @ + 1]
    /\ UNCHANGED varsR

AddToEntity ==
    /\ host.panic = "" /\ host.phase = "pre"
    /\ host.adds < MaxRootsE /\ host.ticks <= LastAddFrame
    /\ UnpackE(add_to_entity(PackE, "e1", "reader"))
    /\ host' = [host EXCEPT !.adds = @ + 1]
    /\ UNCHANGED varsR

\* a system of the host writes F before the executor runs
SystemWrite ==
    /\ host.panic = "" /\ host.phase = "pre"
    /\ host.writes < MaxSystemWrites
    /\ bevy.alive
    /\ exec.coroutines # EmptyMap
    /\ bevy' = deref_mut(bevy, Loc1)
    /\ hist' = Append(hist, Ev("ext", 0, 0, {}))
    /\ host' = [host EXCEPT !.writes = @ + 1]
    /\ UNCHANGED <<exec, varsR>>

\* a system of the host despawns e1 before the executor runs
DespawnE ==
    /\ host.panic = "" /\ host.phase = "pre"
    /\ bevy.alive
    /\ exec.coroutines # EmptyMap
    /\ bevy' = [bevy EXCEPT !.alive = FALSE]
    /\ hist' = Append(hist, Ev("despawn", 0, 0, {}))
    /\ UNCHANGED <<exec, host, varsR>>

TickE ==
    /\ host.panic = "" /\ host.phase = "pre"
    /\ host.ticks < MaxFrames
    /\ \E delta \in FrameDeltas(exec.waiting_on_duration) :
         LET Y == E_tick(PackE, delta)
         IN /\ UnpackE(Y)
            /\ host' = [host EXCEPT !.ticks = @ + 1, !.phase = "post", !.panic = Y.panic]
    /\ UNCHANGED varsR

ClearTrackers ==
    /\ host.panic = "" /\ host.phase = "post"
    /\ bevy' = clear_trackers(bevy)
    /\ hist' = Append(hist, Ev("clear", 0, 0, {}))
    /\ host' = [host EXCEPT !.phase = "pre"]
    /\ UNCHANGED <<exec, varsR>>

NextE == Add \/ AddToEntity \/ SystemWrite \/ DespawnE \/ TickE \/ ClearTrackers

SpecE == InitE /\ [][NextE]_<<varsR, varsE>>

\* ------------------------------------------------------------------------
\* Reading the history of part E
\* ------------------------------------------------------------------------
\* the frame an event belongs to: the number of clear_trackers before it
FrameOf(i) == Cardinality({j \in 1..i : hist[j].k = "clear"})

\* the coroutines registered with the body `reader`
Readers == {hist[i].id : i \in {j \in DOMAIN hist : hist[j].k = "add" /\ "reader" \in hist[j].s}}

\* B is polled again after its change::<F>(e1) future halted
ChangeResumes(c, f) ==
    {i \in DOMAIN hist : hist[i].k = "poll" /\ hist[i].id = c /\ hist[i].n = 1
                         /\ FrameOf(i) = f}

\* the writes of F in a frame, by coroutines and by systems of the host
WritesIn(f) == {i \in DOMAIN hist : hist[i].k \in {"write", "ext"} /\ FrameOf(i) = f}

\* c was filed in waiting_on_change when event i happened
WaitingAt(c, i) ==
    LET own == {j \in 1..(i - 1) : hist[j].id = c
                                   /\ hist[j].k \in {"add", "poll", "wait", "cancel"}}
    IN own # {} /\ hist[MaxOf(own)].k = "wait"

TickDone(i) == \E j \in DOMAIN hist : j > i /\ hist[j].k = "end" /\ FrameOf(j) = FrameOf(i)

\* C4: when a coroutine writes F of e1 while B waits for F of e1 to change,
\* B is resumed in that same tick, and B is resumed once per write: every
\* write that finds B waiting is followed by a resume of B before the tick
\* ends, and B is never resumed more often in a frame than F was written.
C4_ResumedOncePerWrite ==
    \A c \in Readers :
        /\ \A i \in DOMAIN hist :
              (hist[i].k = "write" /\ WaitingAt(c, i) /\ TickDone(i)) =>
                  \E j \in ChangeResumes(c, FrameOf(i)) : j > i
        /\ \A f \in 0..MaxFrames :
              Cardinality(ChangeResumes(c, f)) <= Cardinality(WritesIn(f))

\* ------------------------------------------------------------------------
\* C13: when a coroutine that tick() polls suspends on a future that left
\* no waiting reason, tick() panics, and the coroutine is in none of the
\* executor's queues.
\* ------------------------------------------------------------------------
\* the coroutines that suspended on a future of another library
Foreign == {hist[i].id : i \in {j \in DOMAIN hist : hist[j].k = "foreign"}}

InSeq(s, c) == \E i \in DOMAIN s : s[i] = c

\* c is filed in one of the wait queues of the executor
Filed(c) ==
    \/ InSeq(exec.waiting_on_tick, c)
    \/ \E i \in DOMAIN exec.waiting_on_duration : exec.waiting_on_duration[i].id = c
    \/ \E l \in DOMAIN exec.waiting_on_change : InSeq(exec.waiting_on_change[l], c)
    \/ c \in DOMAIN exec.waiting_on_par_or
    \/ c \in DOMAIN exec.waiting_on_par_and

C13_ForeignAwaitPanics ==
    \A c \in Foreign : host.panic # "" /\ ~Filed(c)

\* the coroutine had waited a tick and written F before it suspended on
\* the foreign future, and the tick stopped with the diagnostic
C13_Witness ==
    \E i \in DOMAIN hist :
        /\ hist[i].k = "foreign"
        /\ \E j \in 1..i : hist[j].k = "write" /\ hist[j].id = hist[i].id
        /\ host.panic = "ERR_WRONGAWAIT"

\* ------------------------------------------------------------------------
\* C16: while no coroutine writes F of e1, a coroutine that waits for F of
\* e1 to change is not resumed in a tick that starts with the changed flag
\* of F clear, and is resumed exactly once in a tick that starts with the
\* flag set.  A coroutine that holds write access to F without writing is
\* taken for the writer of the system's write, and the waiter is resumed
\* a second time in that tick.
\* ------------------------------------------------------------------------
\* the changed flag of F when event i happens: set by the insertion and by
\* every write, cleared by clear_trackers
FlagAt(i) ==
    LET marks == {j \in 1..(i - 1) : hist[j].k \in {"clear", "ext", "write"}}
    IN marks = {} \/ hist[MaxOf(marks)].k # "clear"

OnlyExternalWrites == \A i \in DOMAIN hist : hist[i].k # "write"

\* e1 is there when event i happens
AliveAt(i) == \A j \in 1..(i - 1) : hist[j].k # "despawn"

C16_ResumedWhenFlagSet ==
    OnlyExternalWrites =>
        \A c \in Readers : \A i \in DOMAIN hist :
            (hist[i].k = "tick" /\ WaitingAt(c, i) /\ AliveAt(i) /\ TickDone(i)) =>
                Cardinality(ChangeResumes(c, FrameOf(i))) = IF FlagAt(i) THEN 1 ELSE 0

\* ------------------------------------------------------------------------
\* C18: whenever the live map of the executor is empty, nothing is left in
\* is_awaited_by nor in waiting_on_par_or, nested par_or groups included.
\* ------------------------------------------------------------------------
C18_NoGroupLeftBehind ==
    exec.coroutines = EmptyMap =>
        exec.is_awaited_by = EmptyMap /\ exec.waiting_on_par_or = EmptyMap

\* the run of the test par_or_despawn_correctly: a nested group was built,
\* the outer group resolved, the inner one was cancelled with its members,
\* and the root finished
C18_Witness ==
    /\ exec.coroutines = EmptyMap
    /\ \E a, d \in DOMAIN hist :
          /\ hist[a].k = "add" /\ "nested" \in hist[a].s
          /\ hist[d].k = "done" /\ hist[d].id = hist[a].id
          /\ Cardinality({x \in a..d : hist[x].k = "cancel"}) >= 3

\* ------------------------------------------------------------------------
\* C25: when the branch that satisfies a par_or, or the last unfinished
\* branch of a par_and, finishes during a tick, the awaiting parent is
\* resumed before that tick ends.
\* ------------------------------------------------------------------------
C25_ParentResumedSameTick ==
    \A i \in DOMAIN hist :
        (hist[i].k = "resolved" /\ TickDone(i)) =>
            \E j \in DOMAIN hist :
                /\ j > i /\ FrameOf(j) = FrameOf(i)
                /\ hist[j].k = "poll" /\ hist[j].id = hist[i].id

\* what the code does: the parent is filed in waiting_on_tick, is not
\* resumed in the tick of the resolution, and is resumed in the next tick
\* unless it was cancelled first
C25_ParentResumedNextTick ==
    \A i \in DOMAIN hist :
        hist[i].k = "resolved" =>
            /\ \A j \in DOMAIN hist :
                  (j > i /\ hist[j].k = "poll" /\ hist[j].id = hist[i].id)
                      => FrameOf(j) > FrameOf(i)
            /\ \A e \in DOMAIN hist :
                  (e > i /\ hist[e].k = "end" /\ FrameOf(e) = FrameOf(i) + 1) =>
                      \E j \in (i + 1)..e :
                          /\ hist[j].id = hist[i].id
                          /\ \/ hist[j].k = "poll" /\ FrameOf(j) = FrameOf(i) + 1
                             \/ hist[j].k = "cancel"

\* ------------------------------------------------------------------------
\* C27: a coroutine that yields Changed(e1, F) is resumed again at once, as
\* a descendant of the writer's node, if and only if the write table holds
\* an entry for (e1, F) whose node is not an ancestor of the new node of the
\* coroutine; otherwise it is filed in waiting_on_change, and no resume of
\* it follows in this tick unless F is written again.
\* ------------------------------------------------------------------------
\* the yield of event i found a writer that is no ancestor of the new node
UnseenWrite(i) ==
    \E e \in hist[i].s : e.wt # <<>> /\ e.wt[1] \notin e.anc

\* the yield of event i found a writer among the ancestors of the new node
SeenWrite(i) ==
    \E e \in hist[i].s : e.wt # <<>> /\ e.wt[1] \in e.anc

\* the event after i is the poll of the same coroutine on the new node,
\* which has the writer among its ancestors
RerunAfter(i) ==
    /\ i + 1 \in DOMAIN hist
    /\ hist[i + 1].k = "poll" /\ hist[i + 1].id = hist[i].id
    /\ \A p \in hist[i + 1].s : \A e \in hist[i].s :
          /\ p.node = hist[i].n
          /\ e.wt[1] \in p.anc
          /\ e.anc \subseteq p.anc

FiledAfter(i) ==
    /\ i + 1 \in DOMAIN hist
    /\ hist[i + 1].k = "wait" /\ hist[i + 1].id = hist[i].id

C27_RerunIffUnseenWrite ==
    \A i \in DOMAIN hist :
        hist[i].k = "changed" =>
            /\ UnseenWrite(i) => RerunAfter(i)
            /\ ~UnseenWrite(i) => FiledAfter(i)

C27_NoRerunOnSeenWrite ==
    \A i \in DOMAIN hist :
        (hist[i].k = "changed" /\ SeenWrite(i)) =>
            \A j \in DOMAIN hist :
                (j > i + 1 /\ FrameOf(j) = FrameOf(i)
                 /\ hist[j].k = "poll" /\ hist[j].id = hist[i].id)
                    => \E w \in (i + 1)..j : hist[w].k = "write"

C27_ChangedYield == C27_RerunIffUnseenWrite /\ C27_NoRerunOnSeenWrite

\* ========================================================================
\* Part O: the executor of src/src/executor.rs, which keeps one ready queue
\* and no run context; its ids are entities spawned in the world.
\* ========================================================================
MaxRootsO == 2     \* calls of add / add_to_entity in one behaviour
MaxFramesO == 3    \* calls of run() in one behaviour

\* Executor::new
OldExecutorNew ==
    [coroutines |-> EmptyMap, added |-> <<>>, ready |-> <<>>, waiting_on_tick |-> <<>>,
     waiting_on_duration |-> <<>>, waiting_on_change |-> EmptyMap,
     waiting_on_par_or |-> EmptyMap, waiting_on_par_and |-> EmptyMap,
     is_awaited_by |-> EmptyMap, own |-> EmptyMap, spawned |-> 0]

\* Executor::add and Executor::add_to_entity (owner <<>> or <<entity>>)
O_add(Y, prog, owner) ==
    Logged([Y EXCEPT !.added = Append(@, [prog |-> prog, owner |-> owner])],
           "queued", 0, Len(owner), {prog})

\* Executor::cancel; world.despawn(coroutine) removes the entity that
\* stood for the id, which nothing else refers to
RECURSIVE O_cancel(_, _)
RECURSIVE O_cancel_each(_, _)
O_cancel_each(Y, others) ==
    IF others = <<>> THEN Y
    ELSE O_cancel_each(O_cancel(Y, Head(others)), Tail(others))

O_cancel(Y, coroutine) ==
    IF coroutine \notin DOMAIN Y.coroutines THEN Y
    ELSE LET Y1 == Logged([Y EXCEPT !.coroutines = MapRemove(@, coroutine)],
                          "cancel", coroutine, 0, {})
             Y2 == IF coroutine \in DOMAIN Y1.waiting_on_par_or
                   THEN O_cancel_each([Y1 EXCEPT !.waiting_on_par_or =
                                           MapRemove(@, coroutine)],
                                      Y1.waiting_on_par_or[coroutine])
                   ELSE Y1
             Y3 == IF coroutine \in DOMAIN Y2.waiting_on_par_and
                   THEN O_cancel_each([Y2 EXCEPT !.waiting_on_par_and =
                                           MapRemove(@, coroutine)],
                                      Y2.waiting_on_par_and[coroutine])
                   ELSE Y2
         IN IF coroutine \in DOMAIN Y3.is_awaited_by
            THEN O_cancel([Y3 EXCEPT !.is_awaited_by = MapRemove(@, coroutine)],
                          Y3.is_awaited_by[coroutine])
            ELSE Y3

\* the first loop of Executor::run: the coroutines added since the last
\* run get an entity as their id and are made ready
RECURSIVE O_take_added(_)
O_take_added(Y) ==
    IF Y.added = <<>> THEN Y
    ELSE LET a == Head(Y.added)
             id == Y.spawned
             Y1 == [Y EXCEPT !.added = Tail(@), !.spawned = id + 1,
                             !.coroutines = MapPut(@, id, CoroObject(a.prog)),
                             !.ready = Append(@, id)]
             Y2 == IF a.owner = <<>> THEN Y1
                   ELSE [Y1 EXCEPT !.own =
                            MapPut(@, a.owner[1],
                                   Append(IF a.owner[1] \in DOMAIN @ THEN @[a.owner[1]]
                                          ELSE <<>>, id))]
         IN O_take_added(Logged(Y2, "add", id, Len(a.owner), {a.prog}))

\* the loops of the WaitOnParOr and WaitOnParAnd arms: every coroutine of
\* the message gets an entity, is made ready and is awaited by its parent
O_insert_children(Y, parent, progs) ==
    LET all_ids == [i \in 1..Len(progs) |-> Y.spawned + i - 1]
        fresh == {all_ids[i] : i \in 1..Len(progs)}
    IN [Y EXCEPT !.spawned = @ + Len(progs),
                 !.coroutines = [x \in (DOMAIN @) \cup fresh |->
                                   IF x \in fresh
                                   THEN CoroObject(progs[x - Y.spawned + 1])
                                   ELSE @[x]],
                 !.ready = @ \o all_ids,
                 !.is_awaited_by = [x \in (DOMAIN @) \cup fresh |->
                                      IF x \in fresh THEN parent ELSE @[x]]]

\* the Poll::Pending arm of Executor::run
O_on_pending(Y, coro, msg) ==
    LET all_ids == [i \in 1..Len(msg.coroutines) |-> Y.spawned + i - 1]
        kids == O_insert_children(Y, coro, msg.coroutines)
    IN CASE msg.k = "None" -> Panic(Y, "ERR_WRONGAWAIT")
         [] msg.k = "Tick" -> [Y EXCEPT !.waiting_on_tick = Append(@, coro)]
         [] msg.k = "Duration" ->
              [Y EXCEPT !.waiting_on_duration =
                   Append(@, [id |-> coro, elapsed |-> 0, duration |-> msg.n])]
         [] msg.k = "Changed" ->
              Logged([Y EXCEPT !.waiting_on_change =
                          MapPut(@, msg.loc, Append(IF msg.loc \in DOMAIN @
                                                    THEN @[msg.loc] ELSE <<>>, coro))],
                     "wait", coro, 0, {})
         [] msg.k = "ParOr" ->
              IF coro \in DOMAIN Y.waiting_on_par_or THEN Panic(Y, "assert")
              ELSE [kids EXCEPT !.waiting_on_par_or = MapPut(@, coro, all_ids)]
         [] OTHER ->
              IF coro \in DOMAIN Y.waiting_on_par_and THEN Panic(Y, "assert")
              ELSE [kids EXCEPT !.waiting_on_par_and = MapPut(@, coro, all_ids)]

\* the Poll::Ready arm of Executor::run
O_on_ready(Y, coro) ==
    LET Y1 == Logged(Y, "done", coro, 0, {})
    IN IF coro \notin DOMAIN Y1.is_awaited_by
       THEN [Y1 EXCEPT !.coroutines = MapRemove(@, coro)]
       ELSE LET parent == Y1.is_awaited_by[coro]
                Y2 == [Y1 EXCEPT !.is_awaited_by = MapRemove(@, coro)]
                Y3 == IF parent \in DOMAIN Y2.waiting_on_par_or
                      THEN LET Y4 == O_cancel_each([Y2 EXCEPT !.waiting_on_par_or =
                                                        MapRemove(@, parent)],
                                                   Y2.waiting_on_par_or[parent])
                           IN Logged([Y4 EXCEPT !.ready = Append(@, parent)],
                                     "resolved", parent,
                                     IF parent \in DOMAIN Y4.coroutines THEN 1 ELSE 0,
                                     {})
                      ELSE Y2
            IN IF parent \notin DOMAIN Y3.waiting_on_par_and THEN Y3
               ELSE LET others == Y3.waiting_on_par_and[parent]
                        index == Position(others, coro)
                        Y5 == IF RemoveAt(others, index) = <<>>
                              THEN Logged([Y3 EXCEPT !.ready = Append(@, parent),
                                                     !.waiting_on_par_and =
                                                         MapRemove(@, parent)],
                                          "resolved", parent,
                                          IF parent \in DOMAIN Y3.coroutines THEN 1
                                          ELSE 0, {})
                              ELSE [Y3 EXCEPT !.waiting_on_par_and[parent] =
                                                  RemoveAt(others, index)]
                    IN IF index = 0 THEN Panic(Y3, "unwrap")
                       ELSE [Y5 EXCEPT !.coroutines = MapRemove(@, coro)]

\* the last loop of Executor::run: the ready queue is drained
RECURSIVE O_run_ready(_)
O_run_ready(Y) ==
    IF Y.ready = <<>> \/ Y.panic # "" THEN Y
    ELSE LET coro == Head(Y.ready)
             Y0 == [Y EXCEPT !.ready = Tail(@)]
             Y1 == E_poll(Logged(Y0, "poll", coro,
                                 IF Y.coroutines[coro].halted THEN 1 ELSE 0, {}), coro)
             Y2 == [Y1 EXCEPT !.yield_msg = NoMsg]
         IN IF coro \notin DOMAIN Y.coroutines THEN O_run_ready(Y0)
            ELSE IF Y1.panic # "" THEN Y1
            ELSE IF Y1.result = "Ready" THEN O_run_ready(O_on_ready(Y2, coro))
            ELSE O_run_ready(O_on_pending(Y2, coro, Y1.yield_msg))

\* Executor::run
O_run(Y, delta) ==
    LET Y0 == O_take_added(Logged(Y, "tick", 0, 0, {}))
        timers == [i \in DOMAIN Y0.waiting_on_duration |->
                     timer_tick(Y0.waiting_on_duration[i], delta)]
        fin == SelectSeq(timers, just_finished)
        keys == DOMAIN Y0.waiting_on_change
        changed == {k \in keys : Y0.world.alive /\ is_changed(Y0.world, k)}
        gone == {k \in keys : ~Y0.world.alive}
        Y1 == [Y0 EXCEPT !.ready = @ \o Y0.waiting_on_tick
                                     \o [i \in DOMAIN fin |-> fin[i].id]
                                     \o Waiters(Y0.waiting_on_change, changed),
                         !.waiting_on_tick = <<>>,
                         !.waiting_on_duration = SelectSeq(timers, NotFinished),
                         !.waiting_on_change =
                             [k \in keys \ (changed \cup gone) |-> @[k]]]
        Y2 == O_run_ready(O_cancel_each(Y1, Waiters(Y0.waiting_on_change, gone)))
    IN IF Y2.panic # "" THEN Y2 ELSE Logged(Y2, "end", 0, 0, {})

InitO ==
    /\ IdleR /\ conv = NoConv /\ tables = NoTables /\ alone = NoAlone
    /\ exec = OldExecutorNew
    /\ bevy = WorldNew
    /\ hist = <<>>
    /\ host = [adds |-> 0, ticks |-> 0, writes |-> 0, phase |-> "pre", panic |-> ""]

PackO ==
    [f \in (DOMAIN OldExecutorNew) \cup {"yield_msg", "grab_msg", "result", "world",
                                         "log", "panic"} |->
        CASE f = "yield_msg" -> NoMsg
          [] f = "grab_msg" -> NoMsg
          [] f = "result" -> ""
          [] f = "world" -> bevy
          [] f = "log" -> hist
          [] f = "panic" -> host.panic
          [] OTHER -> exec[f]]

UnpackO(Y) ==
    /\ exec' = [f \in DOMAIN OldExecutorNew |-> Y[f]]
    /\ bevy' = Y.world
    /\ hist' = Y.log

RootProgsO == {"duel", "solo", "both", "nested", "reader", "t2"}

O_Add ==
    /\ host.panic = "" /\ host.phase = "pre"
    /\ host.adds < MaxRootsO /\ host.ticks <= LastAddFrame
    /\ \E prog \in RootProgsO : UnpackO(O_add(PackO, prog, <<>>))
    /\ host' = [host EXCEPT !.adds = @ + 1]
    /\ UNCHANGED varsR

O_AddToEntity ==
    /\ host.panic = "" /\ host.phase = "pre"
    /\ host.adds < MaxRootsO /\ host.ticks <= LastAddFrame
    /\ UnpackO(O_add(PackO, "reader", <<"e1">>))
    /\ host' = [host EXCEPT !.adds = @ + 1]
    /\ UNCHANGED varsR

O_Run ==
    /\ host.panic = "" /\ host.phase = "pre"
    /\ host.ticks < MaxFramesO
    /\ \E delta \in FrameDeltas(exec.waiting_on_duration) :
         LET Y == O_run(PackO, delta)
         IN /\ UnpackO(Y)
            /\ host' = [host EXCEPT !.ticks = @ + 1, !.phase = "post", !.panic = Y.panic]
    /\ UNCHANGED varsR

NextO == O_Add \/ O_AddToEntity \/ O_Run \/ SystemWrite \/ DespawnE \/ ClearTrackers

SpecO == InitO /\ [][NextO]_<<varsR, varsE>>

\* ------------------------------------------------------------------------
\* C26: when the winning branch of a par_or finishes, only the other
\* branches are cancelled: the awaiting parent stays in the live map and is
\* resumed to continue after the par_or.
\* ------------------------------------------------------------------------
C26_ParentOutlivesLosers ==
    \A i \in DOMAIN hist :
        hist[i].k = "resolved" =>
            /\ hist[i].n = 1
            /\ TickDone(i) =>
                  \E j \in DOMAIN hist :
                      /\ j > i /\ hist[j].id = hist[i].id
                      /\ hist[j].k \in {"poll", "cancel"}

\* ========================================================================
\* The id allocator driven alone (src/src/id_alloc.rs): allocate_id,
\* alloc_directly, free of an id that was handed out, and flush, in any
\* order.
\* ========================================================================
\* the other variables of part R stay as they are
IdleButIds ==
    UNCHANGED <<coroutines, waiting_on_tick, waiting_on_time, waiting_on_all,
                waiting_on_first, scope_ownership, is_awaited_by, chan, world, panic,
                log, meta, tickNo, nRoots, hung>>

\* the history after an allocation returned id
Issue(before, id) ==
    [issued EXCEPT !.calls = @ + 1,
                   !.refused = <<>>,
                   !.taken = <<[id |-> id, pre |-> before,
                                fresh |-> \A x \in issued.live \cup issued.freed :
                                              x.index # id.index]>>,
                   !.live = @ \cup {id},
                   !.since = Append(@, id),
                   !.relive = @ \/ id \in issued.live,
                   !.seen = @ \/ contains(before, id)]

IdAllocate ==
    /\ ~issued.halted /\ issued.calls < MaxIdOps
    /\ LET r == allocate_id(ids)
       IN /\ r.id.index < MaxIds
          /\ ids' = r.ids
          /\ issued' = Issue(ids, r.id)
    /\ IdleButIds /\ UNCHANGED <<conv, tables, alone, varsE>>

IdAllocDirectly ==
    /\ ~issued.halted /\ issued.calls < MaxIdOps
    /\ LET r == alloc_directly(ids)
       IN /\ r.id.index < MaxIds
          /\ ids' = r.ids
          /\ issued' = Issue(ids, r.id)
    /\ IdleButIds /\ UNCHANGED <<conv, tables, alone, varsE>>

\* free of an id that an allocation returned, a stale one included; when
\* the generation overflows the build decides between a panic and a wrap
IdFree ==
    /\ ~issued.halted /\ issued.calls < MaxIdOps
    /\ \E id \in issued.live \cup issued.freed : \E overflow_checks \in BOOLEAN :
         LET r == free(ids, id)
         IN IF r.overflow /\ overflow_checks
            THEN /\ issued' = [issued EXCEPT !.halted = TRUE, !.calls = @ + 1,
                                              !.taken = <<>>]
                 /\ UNCHANGED ids
            ELSE /\ ids' = r.ids
                 /\ issued' = [issued EXCEPT
                                  !.calls = @ + 1,
                                  !.taken = <<>>,
                                  !.live = IF r.ok THEN @ \ {id} ELSE @,
                                  !.freed = IF r.ok THEN @ \cup {id} ELSE @,
                                  !.since = <<>>,
                                  !.wrapped = @ \/ r.overflow,
                                  !.refused = IF r.ok THEN <<>>
                                              ELSE <<[id |-> id, pre |-> ids,
                                                      post |-> r.ids]>>]
    /\ IdleButIds /\ UNCHANGED <<conv, tables, alone, varsE>>

\* Executor::tick ends with ids.flush()
IdFlush ==
    /\ ~issued.halted /\ issued.calls < MaxIdOps
    /\ ids' = flush(ids)
    /\ issued' = [issued EXCEPT !.calls = @ + 1, !.refused = <<>>, !.taken = <<>>]
    /\ IdleButIds /\ UNCHANGED <<conv, tables, alone, varsE>>

NextI == IdAllocate \/ IdAllocDirectly \/ IdFree \/ IdFlush

SpecI == InitR /\ [][NextI]_<<varsR, varsE>>

\* ------------------------------------------------------------------------
\* C19: allocate_id and alloc_directly never return an id that is live.
\* As stated, with live meaning that contains() holds just before the call,
\* the property fails: contains() also holds for a free index under its
\* current generation, which is the id the next allocation returns.  What
\* holds, as long as no generation has wrapped around: the id returned was
\* not handed out before, or was freed since; and the ids returned with no
\* free in between are pairwise distinct.
\* ------------------------------------------------------------------------
Distinct(s) == \A i, j \in DOMAIN s : i # j => s[i] # s[j]

C20_FreedStaysOut == \A id \in issued.freed : ~contains(ids, id)

\* ------------------------------------------------------------------------
\* C21: free(id) of an id whose generation is stale returns false and
\* changes nothing.  As stated the property fails: free flushes before it
\* compares the generations, so with ids reserved by allocate_id and not
\* yet flushed the call grows meta, drops the reserved entries of pending
\* and raises len.  What holds: no generation of an existing index is
\* bumped, no index is added to the free list, len changes by the number
\* of reserved ids only, and with nothing to flush the allocator is left
\* as it was.
\* ------------------------------------------------------------------------
\* the ids reserved by allocate_id that a flush makes allocated
Reserved(a) ==
    (IF a.free_cursor < 0 THEN -a.free_cursor ELSE 0)
    + Len(a.pending) - (IF a.free_cursor < 0 THEN 0 ELSE a.free_cursor)

FreeList(a) == SeqTake(a.pending, IF a.free_cursor < 0 THEN 0 ELSE a.free_cursor)

C23_FreeListFirst ==
    \A i \in DOMAIN issued.taken :
        LET t == issued.taken[i]
            fl == FreeList(t.pre)
        IN IF fl # <<>>
           THEN /\ t.id.index = fl[Len(fl)]
                /\ t.id.generation = t.pre.meta[t.id.index + 1]
                /\ ~t.fresh
           ELSE /\ t.fresh
                /\ t.id.generation = 0
                /\ t.id.index >= Len(t.pre.meta)

\* both cases of both calls: the last allocation reused a freed index, and
\* a new index was minted before it while reserved ids awaited their flush
C23_Witness ==
    \E i \in DOMAIN issued.taken :
        /\ FreeList(issued.taken[i].pre) # <<>>
        /\ issued.taken[i].id.generation > 0
        /\ \E x \in issued.live : x.index > 0 /\ x.generation = 0

\* ========================================================================
\* Id::to_bits and Id::from_bits applied to any id: every index and every
\* generation of a word, the allocator apart.
\* ========================================================================
Words == 0..(GenLimit - 1)

InitB ==
    /\ IdleR /\ IdleE /\ tables = NoTables /\ alone = NoAlone
    /\ \E index \in Words, generation \in Words :
          conv = [id |-> MkId(index, generation), bits |-> -1, back |-> NoId]

ToBits ==
    /\ conv.bits = -1
    /\ conv' = [conv EXCEPT !.bits = to_bits(conv.id)]
    /\ IdleButIds /\ UNCHANGED <<ids, issued, tables, alone, varsE>>

FromBits ==
    /\ conv.bits # -1 /\ conv.back = NoId
    /\ conv' = [conv EXCEPT !.back = from_bits(conv.bits)]
    /\ IdleButIds /\ UNCHANGED <<ids, issued, tables, alone, varsE>>

NextB == ToBits \/ FromBits

SpecB == InitB /\ [][NextB]_<<varsR, varsE>>

\* ------------------------------------------------------------------------
\* C24: for every id, Id::from_bits(id.to_bits()) equals id: the index and
\* the generation both survive the round trip.
\* ------------------------------------------------------------------------
C24_BitsRoundTrip == conv.back # NoId => conv.back = conv.id

\* the test entity_bits_roundtrip: an id whose index and generation both
\* have their highest bit set went through
C24_Witness ==
    /\ conv.back # NoId
    /\ conv.id.index >= GenLimit \div 2 /\ conv.id.index % 2 = 1
    /\ conv.id.generation >= GenLimit \div 2 /\ conv.id.generation % 2 = 1
    /\ conv.id.index # conv.id.generation

\* ========================================================================
\* The parent tables driven alone, as a tick drives them: the roots first,
\* then children of nodes that exist.  Three tables are in the sources:
\* "rework" is ParentTable of src/src/rework/executor/mod.rs, "first" the
\* one of src/src/rework/executor.rs, "run_ctx" the one of
\* src/src/executor/run_ctx.rs, which knows no coroutine.
\* ========================================================================
MaxNodes == 4      \* nodes of a parent table
MaxCoros == 2      \* coroutines that get nodes

Coros == {MkId(i, 0) : i \in 0..(MaxCoros - 1)}

\* ParentTable::add_parent of src/src/rework/executor.rs
R0_add_parent(P, parent, node) ==
    [P EXCEPT !.table[node + 1] = @ \cup {parent} \cup P.table[parent + 1]]

\* ParentTable::add_child of src/src/rework/executor.rs
R0_add_child(P, parent, child) ==
    IF child \in DOMAIN P.node_map
    THEN [pt |-> R0_add_parent(P, parent, P.node_map[child]),
          node |-> P.node_map[child]]
    ELSE LET t == Append(P.table, P.table[parent + 1] \cup {parent})
         IN [pt |-> [table |-> t, node_map |-> MapPut(P.node_map, child, Len(t) - 1)],
             node |-> Len(t) - 1]

\* the table of sets of the parent table in hand
TableOf(impl, pt) == IF impl = "run_ctx" THEN pt.parent_table ELSE pt.table

\* the node of coroutine c, as <<node>>, or <<>>
NodeOf(impl, pt, c) ==
    IF impl # "run_ctx" /\ c \in DOMAIN pt.node_map THEN <<pt.node_map[c]>> ELSE <<>>

Called(op, parent, child, node, post) ==
    [tables EXCEPT !.pt = post,
                   !.grown = @ \/ op # "add_root",
                   !.last = <<[op |-> op, parent |-> parent, node |-> node,
                               had |-> NodeOf(tables.impl, tables.pt, child),
                               pre |-> TableOf(tables.impl, tables.pt),
                               post |-> TableOf(tables.impl, post)]>>]

InitP ==
    /\ IdleR /\ IdleE /\ conv = NoConv /\ alone = NoAlone
    /\ \E impl \in {"rework", "first", "run_ctx"} :
          tables = [impl |-> impl,
                    pt |-> IF impl = "run_ctx" THEN RunContextNew ELSE ParentTableNew,
                    grown |-> FALSE, last |-> <<>>]

\* Executor::tick gives a root node to every coroutine it starts with
P_AddRoot ==
    /\ ~tables.grown
    /\ Len(TableOf(tables.impl, tables.pt)) < MaxNodes
    /\ \E c \in Coros :
          /\ NodeOf(tables.impl, tables.pt, c) = <<>>
          /\ tables' =
                IF tables.impl = "run_ctx"
                THEN Called("add_root", 0, c, LastNode(E_add_root(tables.pt)),
                            E_add_root(tables.pt))
                ELSE Called("add_root", 0, c, add_root(tables.pt, c).node,
                            add_root(tables.pt, c).pt)
    /\ IdleButIds /\ UNCHANGED <<ids, issued, conv, alone, varsE>>

\* a coroutine is run after the node parent: a child that starts, a waiter
\* of a write, a parent whose awaited coroutine finished
P_AddChild ==
    /\ Len(TableOf(tables.impl, tables.pt)) < MaxNodes
    /\ \E parent \in 0..(Len(TableOf(tables.impl, tables.pt)) - 1), c \in Coros :
          /\ NodeOf(tables.impl, tables.pt, c) # <<parent>>
          /\ tables' =
              CASE tables.impl = "run_ctx" ->
                     Called("add_child", parent, c,
                            LastNode(E_add_child(tables.pt, parent)),
                            E_add_child(tables.pt, parent))
                [] tables.impl = "first" ->
                     Called("add_child", parent, c,
                            R0_add_child(tables.pt, parent, c).node,
                            R0_add_child(tables.pt, parent, c).pt)
                [] OTHER ->
                     Called("add_child", parent, c,
                            add_child(tables.pt, parent, c).node,
                            add_child(tables.pt, parent, c).pt)
    /\ IdleButIds /\ UNCHANGED <<ids, issued, conv, alone, varsE>>

\* the nodes that have node among their ancestors
Descendants(t, node) == {m \in 0..(Len(t) - 1) : node \in t[m + 1]}

\* Executor::run of src/src/executor/mod.rs gives a further parent to the
\* node a coroutine is about to run on, which has no descendant yet
P_AddParent ==
    /\ tables.impl = "run_ctx"
    /\ \E parent, node \in 0..(Len(tables.pt.parent_table) - 1) :
          /\ parent # node
          /\ Descendants(tables.pt.parent_table, node) = {}
          /\ node \notin tables.pt.parent_table[parent + 1]
          /\ tables' = Called("add_parent", parent, NoId, node,
                              E_add_parent(tables.pt, parent, node))
    /\ IdleButIds /\ UNCHANGED <<ids, issued, conv, alone, varsE>>

NextP == P_AddRoot \/ P_AddChild \/ P_AddParent

SpecP == InitP /\ [][NextP]_<<varsR, varsE>>

\* ------------------------------------------------------------------------
\* C28: add_child(p, c) for a coroutine c that has no node in this tick
\* creates a new node, distinct from every existing node, whose ancestor
\* set is exactly the ancestors of p together with p itself.
\* ------------------------------------------------------------------------
NewNodeMade(l) ==
    /\ Len(l.post) = Len(l.pre) + 1
    /\ l.node = Len(l.pre)
    /\ l.post[l.node + 1] = l.pre[l.parent + 1] \cup {l.parent}
    /\ \A n \in DOMAIN l.pre : l.post[n] = l.pre[n]

C28_AddChildMakesNode ==
    \A i \in DOMAIN tables.last :
        (tables.last[i].op = "add_child" /\ tables.last[i].had = <<>>)
            => NewNodeMade(tables.last[i])

\* the tables of src/src/rework/executor.rs and of
\* src/src/executor/run_ctx.rs do make the node
C28_EarlierTablesMakeNode ==
    tables.impl \in {"first", "run_ctx"} => C28_AddChildMakesNode

\* ------------------------------------------------------------------------
\* C29: add_child(p, c) for a coroutine c that already has a node in this
\* tick creates no new node: it returns the node of c, whose ancestor set
\* now holds p and the ancestors of p as well, and has lost nothing.
\* ------------------------------------------------------------------------
NodeExtended(l) ==
    /\ Len(l.post) = Len(l.pre)
    /\ l.node = l.had[1]
    /\ l.post[l.node + 1] = l.pre[l.node + 1] \cup {l.parent} \cup l.pre[l.parent + 1]
    /\ \A n \in (DOMAIN l.pre) \ {l.node + 1} : l.post[n] = l.pre[n]

C29_AddChildExtendsNode ==
    \A i \in DOMAIN tables.last :
        (tables.last[i].op = "add_child" /\ tables.last[i].had # <<>>)
            => NodeExtended(tables.last[i])

\* the table of src/src/rework/executor.rs does extend the node
C29_FirstTableExtendsNode ==
    tables.impl = "first" => C29_AddChildExtendsNode

\* ------------------------------------------------------------------------
\* C30: at every point of a tick the ancestor sets are transitively
\* closed: if a is an ancestor of b and b an ancestor of c then a is an
\* ancestor of c, also after a node that has descendants was given a new
\* ancestor.
\* ------------------------------------------------------------------------
Closed(t) ==
    \A b, c \in 0..(Len(t) - 1) :
        b \in t[c + 1] => t[b + 1] \subseteq t[c + 1]

C30_AncestorsClosed == Closed(TableOf(tables.impl, tables.pt))

\* closed as long as the node that gets the ancestor has no descendant,
\* which is how src/src/executor/mod.rs uses add_parent
C30_ClosedWithoutDescendants ==
    tables.impl = "run_ctx" => C30_AncestorsClosed

\* in the runs of src/src/executor/mod.rs the table is closed whenever a
\* coroutine is polled
C30_ClosedAtEveryPoll ==
    \A i \in DOMAIN hist :
        hist[i].k = "poll" => \A p \in hist[i].s : Closed(p.table)

\* ========================================================================
\* The suspension primitives polled alone, as the body of one coroutine
\* polls them: a future is made, polled until it is Ready, and dropped;
\* then the next one is made.  NextTick and DurationFuture are those of
\* src/src/rework/tick.rs, AwaitChange that of
\* src/src/rework/function_coroutine/await_change.rs, AwaitSignal that of
\* src/src/function_coroutine/await_signal.rs.
\* ========================================================================
MaxPolls == 4

CoroState_Running == "Running"

CoroState_Halted == "Halted"

\* the signals a coroutine can wait for: a resource, or a component of e1
SignalIds == {[owner |-> NoEntity], [owner |-> "e1"]}

\* the values a signal can hold when it is read
SignalValues == 0..1

\* NextTick::new, DurationFuture::new, AwaitChange::new, AwaitSignal::new
FutureNew(type, arg) == [type |-> type, arg |-> arg, state |-> CoroState_Running]

\* the futures the body can make
Futures ==
    {FutureNew("NextTick", 0)}
        \cup {FutureNew("DurationFuture", d) : d \in Deltas}
        \cup {FutureNew("AwaitChange", id) : id \in SignalIds}
        \cup {FutureNew("AwaitSignal", id) : id \in SignalIds}

\* the result of one poll: the future afterwards, the messages yield_ sent,
\* and what poll returned
Polled(fut, state, sent, out) ==
    [fut |-> [fut EXCEPT !.state = state], sent |-> sent, out |-> out]

\* NextTick::poll; dt is the delta of the Time resource
NextTick_poll(fut, dt) ==
    IF fut.state = CoroState_Halted
    THEN Polled(fut, CoroState_Running, <<>>, <<"Ready", dt>>)
    ELSE Polled(fut, CoroState_Halted, <<[status |-> "Tick"]>>, <<"Pending">>)

\* DurationFuture::poll
DurationFuture_poll(fut) ==
    IF fut.state = CoroState_Halted
    THEN Polled(fut, CoroState_Running, <<>>, <<"Ready">>)
    ELSE Polled(fut, CoroState_Halted,
                <<[status |-> "Duration", timer |-> fut.arg]>>, <<"Pending">>)

\* AwaitChange::poll: the Halted arm returns Ready and assigns nothing
AwaitChange_poll(fut) ==
    IF fut.state = CoroState_Halted
    THEN Polled(fut, fut.state, <<>>, <<"Ready">>)
    ELSE Polled(fut, CoroState_Halted,
                <<[status |-> "Signal", id |-> fut.arg]>>, <<"Pending">>)

\* AwaitSignal::poll; v is the value read from the signal.  The Running
\* arm yields and returns Pending and assigns nothing
AwaitSignal_poll(fut, v) ==
    IF fut.state = CoroState_Halted
    THEN Polled(fut, CoroState_Running, <<>>, <<"Ready", v>>)
    ELSE Polled(fut, fut.state, <<[status |-> "Tick"]>>, <<"Pending">>)

\* the history of the polls
PollCalled(r) ==
    [alone EXCEPT !.fut = IF r.out[1] = "Ready" THEN <<>> ELSE <<r.fut>>,
                  !.polls = Append(@, [type |-> r.fut.type, nth |-> alone.nth + 1,
                                       pre |-> alone.fut[1].state,
                                       post |-> r.fut.state,
                                       sent |-> r.sent, out |-> r.out]),
                  !.nth = IF r.out[1] = "Ready" THEN 0 ELSE @ + 1]

InitF ==
    /\ IdleR /\ IdleE /\ conv = NoConv /\ tables = NoTables
    /\ alone = [kind |-> "future", fut |-> <<>>, polls |-> <<>>, nth |-> 0,
                made |-> <<>>]

IdleButAlone == IdleButIds /\ UNCHANGED <<ids, issued, conv, tables, varsE>>

\* the body reaches the next await and makes its future
F_New ==
    /\ alone.fut = <<>>
    /\ Len(alone.polls) < MaxPolls
    /\ \E f \in Futures :
          alone' = [alone EXCEPT !.fut = <<f>>, !.made = Append(@, f)]
    /\ IdleButAlone

\* the coroutine is resumed and polls the future it is waiting in
F_Poll ==
    /\ alone.fut # <<>>
    /\ Len(alone.polls) < MaxPolls
    /\ LET fut == alone.fut[1]
       IN  CASE fut.type = "NextTick" ->
                   \E dt \in Deltas : alone' = PollCalled(NextTick_poll(fut, dt))
             [] fut.type = "DurationFuture" ->
                   alone' = PollCalled(DurationFuture_poll(fut))
             [] fut.type = "AwaitChange" ->
                   alone' = PollCalled(AwaitChange_poll(fut))
             [] fut.type = "AwaitSignal" ->
                   \E v \in SignalValues :
                       alone' = PollCalled(AwaitSignal_poll(fut, v))
    /\ IdleButAlone

NextF == F_New \/ F_Poll

SpecF == InitF /\ [][NextF]_<<varsR, varsE>>

\* ------------------------------------------------------------------------
\* C31: every suspension primitive starts in Running; a poll in Running
\* moves it to Halted, sends exactly one waiting reason and returns
\* Pending; the next poll, in Halted, moves it back to Running and returns
\* Ready.
\* ------------------------------------------------------------------------
TwoPolls(l) ==
    /\ l.nth = 1 => l.pre = CoroState_Running
    /\ l.pre = CoroState_Running =>
          l.post = CoroState_Halted /\ Len(l.sent) = 1 /\ l.out[1] = "Pending"
    /\ l.nth = 2 => l.pre = CoroState_Halted
    /\ l.pre = CoroState_Halted =>
          l.post = CoroState_Running /\ l.sent = <<>> /\ l.out[1] = "Ready"

C31_RunningHaltedRunning ==
    /\ \A i \in DOMAIN alone.made : alone.made[i].state = CoroState_Running
    /\ \A i \in DOMAIN alone.polls : TwoPolls(alone.polls[i])

\* NextTick and DurationFuture do follow the two polls
C31_TickAndDurationTwoPolls ==
    \A i \in DOMAIN alone.polls :
        alone.polls[i].type \in {"NextTick", "DurationFuture"}
            => TwoPolls(alone.polls[i])

\* AwaitChange returns Pending once and then Ready, and only its state is
\* left at Halted
C31_ChangeReadyOnSecondPoll ==
    \A i \in DOMAIN alone.polls :
        alone.polls[i].type = "AwaitChange" =>
            /\ alone.polls[i].nth = 1 =>
                  alone.polls[i].out[1] = "Pending" /\ Len(alone.polls[i].sent) = 1
            /\ alone.polls[i].nth = 2 =>
                  alone.polls[i].out[1] = "Ready" /\ alone.polls[i].sent = <<>>

\* AwaitSignal is never Ready
C31_SignalNeverReady ==
    \A i \in DOMAIN alone.polls :
        alone.polls[i].type = "AwaitSignal" =>
            alone.polls[i].out[1] = "Pending" /\ alone.polls[i].post = CoroState_Running

\* ========================================================================
\* Part R again: cancellation and the bookkeeping maps of
\* src/src/rework/executor/mod.rs.
\* ========================================================================
\* events i and j belong to one outermost cancel call: nothing but cancels
\* and the drops they cause lies between them
SameCancel(i, j) ==
    \A m \in DOMAIN log :
        ((i <= m /\ m <= j) \/ (j <= m /\ m <= i)) => log[m].k \in {"cancel", "hdrop"}

\* event i cancels a live coroutine that parent p is awaiting
CancelsAwaited(i, p) ==
    Is(i, "cancel") /\ log[i].n = 1 /\ [parent |-> p] \in log[i].s

\* the wake of parent p that follows event r
WakeAfter(r, p) == {w \in After(r, "wake", p) : After(r, "wake", p) \cap r..(w - 1) = {}}

PollOf(i) ==
    LET polls == {p \in 1..(i - 1) : hist[p].k = "poll"
                                    /\ \E e \in hist[p].s : e.node = hist[i].n}
    IN IF polls = {} THEN 0 ELSE MaxOf(polls)

\* the coroutine polled at event p wrote during that poll
WroteIn(p) ==
    \E j \in DOMAIN hist :
        /\ j > p /\ hist[j].k = "write" /\ hist[j].id = hist[p].id
        /\ \A m \in (p + 1)..j : hist[m].k # "poll"

\* ------------------------------------------------------------------------
\* C33: the write table records node N as the writer of (entity, field)
\* only if the coroutine resumed at N mutated the field during that resume;
\* a coroutine that holds write access and did not mutate the field is not
\* recorded and wakes no change-waiter.
\* ------------------------------------------------------------------------
C33_WriterOnlyIfWrote ==
    \A i \in DOMAIN hist :
        hist[i].k = "insert" => PollOf(i) # 0 /\ WroteIn(PollOf(i))

\* what the code does: the node is entered exactly when the component the
\* coroutine has write access to is changed since the last clear_trackers,
\* by this coroutine, by another one or by a system of the host
C33_WriterOnlyIfChanged ==
    \A i \in DOMAIN hist :
        hist[i].k = "insert" =>
            /\ PollOf(i) # 0
            /\ \E j \in 1..i : hist[j].k \in {"write", "ext"} /\ FrameOf(j) = FrameOf(i)

\* a coroutine that wrote is always entered
C33_WriterIfWrote ==
    \A p \in DOMAIN hist :
        (hist[p].k = "poll" /\ WroteIn(p) /\ TickDone(p)) =>
            \E i \in DOMAIN hist :
                i > p /\ hist[i].k = "insert" /\ PollOf(i) = p

\* ========================================================================
\* The parameters of one coroutine initialised alone
\* (src/src/coroutine/coro_param): the tuple of parameters is initialised
\* from left to right against one CoroAccess, and the first parameter that
\* yields None ends it.  Rd and Wr are the component parameters of
\* component.rs, RdRes and WrRes the resource parameters of resource.rs.
\* ========================================================================
MaxParams == 2

Resources == {"r1", "r2"}

RdRes(r) == [k |-> "RdRes", f |-> r]

WrRes(r) == [k |-> "WrRes", f |-> r]

\* SourceId::World
SourceId_World == "World"

\* the parameters a coroutine function can declare
ParamTypes == {Rd("f"), Wr("f")} \cup {RdRes(r) : r \in Resources}
                  \cup {WrRes(r) : r \in Resources}

ParamTuples ==
    UNION {[1..n -> ParamTypes] : n \in 1..MaxParams}

\* RdRes::init: None when the resource has no id, and None when add_read
\* returns true
RdRes_init(A, registered, r) ==
    IF r \notin registered THEN [access |-> A, some |-> FALSE]
    ELSE LET a == add_read(A, SourceId_World, r)
         IN [access |-> a.access, some |-> ~a.ok]

\* WrRes::init: None when the resource has no id, and None when add_write
\* returns true
WrRes_init(A, registered, r) ==
    IF r \notin registered THEN [access |-> A, some |-> FALSE]
    ELSE LET a == add_write(A, SourceId_World, r)
         IN [access |-> a.access, some |-> ~a.ok]

\* Rd::init and Wr::init of component.rs: None when the add returns false
Component_init(A, owner, p) ==
    LET a == IF p.k = "Rd" THEN add_read(A, owner, p.f) ELSE add_write(A, owner, p.f)
    IN [access |-> a.access, some |-> a.ok]

\* CoroParam::init of one parameter
CoroParam_init(A, owner, registered, p) ==
    CASE p.k = "RdRes" -> RdRes_init(A, registered, p.f)
      [] p.k = "WrRes" -> WrRes_init(A, registered, p.f)
      [] OTHER -> Component_init(A, owner, p)

\* where a parameter reads or writes
SourceOf(owner, p) == IF p.k \in {"RdRes", "WrRes"} THEN SourceId_World ELSE owner

\* the access of p conflicts with an access the coroutine already declared
ConflictsWith(A, owner, p) ==
    IF p.k \in {"Rd", "RdRes"}
    THEN <<SourceOf(owner, p), p.f>> \in A.writes
    ELSE <<SourceOf(owner, p), p.f>> \in A.reads \cup A.writes

InitA ==
    /\ IdleR /\ IdleE /\ conv = NoConv /\ tables = NoTables
    /\ \E ps \in ParamTuples, registered \in SUBSET Resources :
          alone = [kind |-> "params", owner |-> "e1", registered |-> registered,
                   todo |-> ps, access |-> CoroAccessNew, inits |-> <<>>,
                   built |-> <<>>]

\* the init of the tuple reaches its next parameter
A_Init ==
    /\ alone.todo # <<>>
    /\ LET p == Head(alone.todo)
           r == CoroParam_init(alone.access, alone.owner, alone.registered, p)
       IN alone' = [alone EXCEPT
                      !.access = r.access,
                      !.todo = IF r.some THEN Tail(@) ELSE <<>>,
                      !.inits = Append(@, [p |-> p, some |-> r.some,
                                           pre |-> alone.access]),
                      !.built = IF r.some /\ Tail(alone.todo) = <<>>
                                THEN <<TRUE>>
                                ELSE IF r.some THEN <<>> ELSE <<FALSE>>]
    /\ IdleButAlone

NextA == A_Init

SpecA == InitA /\ [][NextA]_<<varsR, varsE>>

\* ------------------------------------------------------------------------
\* C34: initialising a resource parameter (RdRes or WrRes) yields no
\* parameter exactly when the resource is not registered or the access
\* conflicts with an access the same coroutine already declared; when there
\* is no conflict the initialisation succeeds.
\* ------------------------------------------------------------------------
IsResInit(l) == l.p.k \in {"RdRes", "WrRes"}

C34_ResInitNoneIffConflict ==
    \A i \in DOMAIN alone.inits :
        LET l == alone.inits[i]
        IN IsResInit(l) =>
              (~l.some <=> (l.p.f \notin alone.registered
                               \/ ConflictsWith(l.pre, alone.owner, l.p)))

\* the component parameters do follow this rule
C34_ComponentInitNoneIffConflict ==
    \A i \in DOMAIN alone.inits :
        LET l == alone.inits[i]
        IN ~IsResInit(l) => (~l.some <=> ConflictsWith(l.pre, alone.owner, l.p))

\* the resource parameters yield None when the resource is not registered
C34_NoneWhenNotRegistered ==
    \A i \in DOMAIN alone.inits :
        LET l == alone.inits[i]
        IN (IsResInit(l) /\ l.p.f \notin alone.registered) => ~l.some

\* as the code stands no resource parameter is ever built: without a
\* conflict init yields None, and that ends the init of the tuple before a
\* second access to the resource can be declared
C34_ResourceParamNeverBuilt ==
    \A i \in DOMAIN alone.inits : IsResInit(alone.inits[i]) => ~alone.inits[i].some

\* ------------------------------------------------------------------------
\* C35: every tick terminates provided each single resume terminates: for
\* any finite set of coroutines, including coroutines that both write a
\* field and wait for a change of that same field, the worklist of the tick
\* and the delayed queue are exhausted after finitely many resumes.
\* ------------------------------------------------------------------------
C35_TickTerminates ==
    \A i \in DOMAIN hist : hist[i].k # "diverges"

\* the coroutines registered with a body that writes F once and then waits
\* for every change of F
Echoes == {hist[i].id : i \in {j \in DOMAIN hist : hist[j].k = "add" /\ "echo" \in hist[j].s}}

\* with at most one such coroutine every tick ends, after fewer resumes
\* than the bound
C35_TerminatesWithOneEcho ==
    Cardinality(Echoes) <= 1 => C35_TickTerminates

\* ------------------------------------------------------------------------
\* C36: cancel(id) terminates in every reachable bookkeeping state: the
\* recursion through owned children, awaited children and the awaiting
\* parent removes a map entry before each recursive call, so every
\* coroutine is visited a bounded number of times.  Every call of cancel is
\* in the history; an outermost call with n entries in the maps makes at
\* most n calls below it, and returns.
\* ------------------------------------------------------------------------
\* the nesting depth and the entries that cancel event i recorded
CallOf(i) == CHOOSE e \in log[i].s : "depth" \in DOMAIN e

\* event i is an outermost call of cancel
Outermost(i) == Is(i, "cancel") /\ CallOf(i).depth = 1

\* the calls of cancel made below the outermost call of event i
CallsBelow(i) ==
    {j \in DOMAIN log :
        /\ j > i /\ Is(j, "cancel") /\ CallOf(j).depth > 1
        /\ \A m \in (i + 1)..j : ~Outermost(m) /\ log[m].k \in {"cancel", "hdrop"}}

C36_CancelTerminates ==
    \A i \in DOMAIN log :
        Outermost(i) =>
            /\ Cardinality(CallsBelow(i)) <= CallOf(i).entries
            /\ \A j \in CallsBelow(i) : CallOf(j).entries < CallOf(i).entries

\* the First entry of the parent is removed before the parent is cancelled
\* or resumed again: a cancel that reaches a coroutine twice finds it gone
C36_SecondVisitFindsNothing ==
    \A i \in DOMAIN log : \A j \in CallsBelow(i) : \A k \in CallsBelow(i) :
        (j < k /\ log[j].id = log[k].id) => log[k].n = 0

\* an outermost cancel that goes down to an awaited coroutine, up again to
\* its parent and down again
C36_Witness ==
    \E i \in DOMAIN log :
        /\ Outermost(i)
        /\ Cardinality(CallsBelow(i)) >= 3
        /\ \E j \in CallsBelow(i) : CallOf(j).depth >= 3

\* ========================================================================
\* The parent tables again.
\* ========================================================================
\* no node is among its own ancestors
Irreflexive(t) == \A n \in 0..(Len(t) - 1) : n \notin t[n + 1]

\* ------------------------------------------------------------------------
\* C37: no ordering node is ever its own ancestor: the ancestor relation
\* stays irreflexive throughout a tick, also when a parent whose node was
\* created this tick is queued again because a child it started this tick
\* has finished.
\* ------------------------------------------------------------------------
C37_NoNodeItsOwnAncestor == Irreflexive(TableOf(tables.impl, tables.pt))

\* the table of src/src/executor/run_ctx.rs stays irreflexive as long as
\* add_parent is given a node without descendants, and so does the table
\* of src/src/rework/executor/mod.rs, whose sets stay empty
C37_IrreflexiveElsewhere ==
    tables.impl \in {"run_ctx", "rework"} => C37_NoNodeItsOwnAncestor

\* the table of src/src/rework/executor.rs loses irreflexivity only in
\* add_child for a coroutine whose node is the parent or one of its
\* ancestors
C37_OnlyWhenChildIsAncestor ==
    \A i \in DOMAIN tables.last :
        LET l == tables.last[i]
        IN (Irreflexive(l.pre) /\ ~Irreflexive(l.post)) =>
              /\ tables.impl = "first" /\ l.op = "add_child" /\ l.had # <<>>
              /\ l.had[1] \in l.pre[l.parent + 1]

\* in the runs of src/src/executor/mod.rs no node is its own ancestor
\* whenever a coroutine is polled
C37_IrreflexiveAtEveryPoll ==
    \A i \in DOMAIN hist :
        hist[i].k = "poll" => \A p \in hist[i].s : Irreflexive(p.table)

\* ========================================================================
\* Part R again: the queues and maps between two calls of the host.
\* ========================================================================
\* how often coroutine c is in the tick queue, and in the duration queue
InTickQueue(c) == Cardinality({i \in DOMAIN waiting_on_tick : waiting_on_tick[i] = c})

InTimeQueue(c) == Cardinality({i \in DOMAIN waiting_on_time : waiting_on_time[i].id = c})

\* the places where the scheduler will look for coroutine c
Places(c) ==
    InTickQueue(c) + InTimeQueue(c)
        + (IF c \in DOMAIN waiting_on_first THEN 1 ELSE 0)
        + (IF c \in DOMAIN waiting_on_all THEN 1 ELSE 0)

\* ------------------------------------------------------------------------
\* C38: between ticks every coroutine in the live map is in exactly one
\* place the scheduler will service: the tick queue, the duration queue, or
\* the key of a First or All entry; never in two of them, never in none.
\* ------------------------------------------------------------------------
C38_ExactlyOnePlace ==
    (panic = "" /\ ~hung) => \A c \in DOMAIN coroutines : Places(c) = 1

\* never in two places
C38_AtMostOnePlace ==
    (panic = "" /\ ~hung) => \A c \in DOMAIN coroutines : Places(c) <= 1

\* after a tick one coroutine waits in the tick queue, one in the duration
\* queue and one as the key of a First entry
C38_Witness ==
    /\ panic = "" /\ ~hung /\ tickNo >= 1
    /\ \E a, b, c \in DOMAIN coroutines :
          /\ InTickQueue(a) = 1 /\ InTimeQueue(b) = 1
          /\ c \in DOMAIN waiting_on_first

\* the children a parent waits for, in either of the two maps
AwaitedChildren(p) ==
    (IF p \in DOMAIN waiting_on_first THEN waiting_on_first[p] ELSE {})
        \cup (IF p \in DOMAIN waiting_on_all THEN waiting_on_all[p] ELSE {})

\* C39: between resumes a child maps to a parent in is_awaited_by exactly when
\* it is in the First set or the All set of that parent, and every key of
\* waiting_on_first and waiting_on_all is a live coroutine
C39_AwaitedByAgrees ==
    (panic = "" /\ ~hung) =>
        /\ \A c \in DOMAIN is_awaited_by : c \in AwaitedChildren(is_awaited_by[c])
        /\ \A p \in DOMAIN waiting_on_first \cup DOMAIN waiting_on_all :
              /\ p \in DOMAIN coroutines
              /\ \A c \in AwaitedChildren(p) :
                    c \in DOMAIN is_awaited_by /\ is_awaited_by[c] = p

\* the three parts of C39, each alone
C39_AwaitedIsInSet ==
    (panic = "" /\ ~hung) =>
        \A c \in DOMAIN is_awaited_by : c \in AwaitedChildren(is_awaited_by[c])

C39_SetIsAwaited ==
    (panic = "" /\ ~hung) =>
        \A p \in DOMAIN waiting_on_first \cup DOMAIN waiting_on_all :
            \A c \in AwaitedChildren(p) :
                c \in DOMAIN is_awaited_by /\ is_awaited_by[c] = p

C39_ParentsAreLive ==
    (panic = "" /\ ~hung) =>
        \A p \in DOMAIN waiting_on_first \cup DOMAIN waiting_on_all :
            p \in DOMAIN coroutines

\* a First entry is open and a live parent is awaited, after an earlier First
\* entry was resolved and its losers cancelled
C39_Witness ==
    /\ panic = "" /\ ~hung
    /\ \E p \in DOMAIN waiting_on_first : waiting_on_first[p] # {}
    /\ \E c \in DOMAIN is_awaited_by : is_awaited_by[c] \in DOMAIN coroutines
    /\ \E i \in DOMAIN log : Is(i, "resolved") /\ log[i].s # {}

\* ------------------------------------------------------------------------
\* The one-shot channel of src/src/function_coroutine/once_channel.rs, alone:
\* its two endpoints act in any order.  The history keeps, for each channel,
\* how often its allocation was freed and by which endpoint, the endpoints
\* in the order they left, and whether an unreachable!() arm or the freed
\* allocation was reached.
\* ------------------------------------------------------------------------
MaxChans == 2

MaxTryRecv == 2

Messages == 1..2

Uninit == 0

\* what the last try_recv returned
Got(res, v) == [res |-> res, v |-> v]

\* sync_once_channel with SyncChannel::new: state INIT, message uninit, one
\* sender and one receiver
sync_once_channel ==
    [state |-> INIT, message |-> Uninit, snd |-> TRUE, rec |-> TRUE,
     frees |-> 0, freed_by |-> "", left |-> <<>>, unreachable |-> FALSE,
     dangling |-> FALSE, recvs |-> 0, got |-> Got("none", Uninit)]

\* drop(Box::from_raw(channel_ptr))
Deallocate(ch, who) ==
    [ch EXCEPT !.state = FREED, !.frees = @ + 1, !.freed_by = who]

\* an endpoint is consumed (send) or dropped
Leaves(ch, who) ==
    IF who = "snd" THEN [ch EXCEPT !.snd = FALSE, !.left = Append(@, who)]
    ELSE [ch EXCEPT !.rec = FALSE, !.left = Append(@, who)]

\* OnceSender::send
OnceSender_send(ch, message) ==
    CASE ch.state = INIT ->
           [Leaves(ch, "snd") EXCEPT !.state = DONE, !.message = message]
      [] ch.state = DROP_REC -> Deallocate(Leaves(ch, "snd"), "snd")
      [] ch.state = FREED -> [Leaves(ch, "snd") EXCEPT !.dangling = TRUE]
      [] OTHER -> [Leaves(ch, "snd") EXCEPT !.unreachable = TRUE]

\* OnceRec::try_recv; v is what reading the message gives when it is not
\* initialized
OnceRec_try_recv(ch, v) ==
    CASE ch.state = INIT -> [ch EXCEPT !.recvs = @ + 1, !.got = Got("Empty", Uninit)]
      [] ch.state = DROP_SND -> [ch EXCEPT !.recvs = @ + 1, !.got = Got("Disconnected", Uninit)]
      [] ch.state = DONE ->
           [ch EXCEPT !.recvs = @ + 1, !.message = Uninit,
                      !.got = IF ch.message = Uninit THEN Got("Ok", v)
                              ELSE Got("Ok", ch.message)]
      [] ch.state = FREED -> [ch EXCEPT !.recvs = @ + 1, !.dangling = TRUE]
      [] OTHER -> [ch EXCEPT !.recvs = @ + 1, !.unreachable = TRUE]

\* a receiver that is dropped without a look at the state
OnceRec_drop_leak(ch) ==
    IF ch.state = INIT THEN [Leaves(ch, "rec") EXCEPT !.state = DROP_REC]
    ELSE Leaves(ch, "rec")

\* Drop for OnceRec
OnceRec_drop(ch) ==
    CASE ch.state \in {DROP_SND, DONE} -> Deallocate(Leaves(ch, "rec"), "rec")
      [] ch.state = INIT -> [Leaves(ch, "rec") EXCEPT !.state = DROP_REC]
      [] ch.state = FREED -> [Leaves(ch, "rec") EXCEPT !.dangling = TRUE]
      [] OTHER -> [Leaves(ch, "rec") EXCEPT !.unreachable = TRUE]

\* Drop for OnceSender
OnceSender_drop(ch) ==
    CASE ch.state = DROP_REC -> Deallocate(Leaves(ch, "snd"), "snd")
      [] ch.state = INIT -> [Leaves(ch, "snd") EXCEPT !.state = DROP_SND]
      [] ch.state = FREED -> [Leaves(ch, "snd") EXCEPT !.dangling = TRUE]
      [] OTHER -> [Leaves(ch, "snd") EXCEPT !.unreachable = TRUE]

InitC ==
    /\ IdleR /\ IdleE /\ conv = NoConv /\ tables = NoTables
    /\ alone = [kind |-> "channel", chans |-> <<>>]

\* sync_once_channel is called
C_New ==
    /\ Len(alone.chans) < MaxChans
    /\ alone' = [alone EXCEPT !.chans = Append(@, sync_once_channel)]
    /\ IdleButAlone

\* the sender sends; send takes the sender by value
C_Send ==
    /\ \E i \in DOMAIN alone.chans, m \in Messages :
          /\ alone.chans[i].snd
          /\ alone' = [alone EXCEPT !.chans[i] = OnceSender_send(@, m)]
    /\ IdleButAlone

\* the sender is dropped without sending
C_SenderDrop ==
    /\ \E i \in DOMAIN alone.chans :
          /\ alone.chans[i].snd
          /\ alone' = [alone EXCEPT !.chans[i] = OnceSender_drop(@)]
    /\ IdleButAlone

\* the receiver looks for the message
C_TryRecv ==
    /\ \E i \in DOMAIN alone.chans, v \in Messages :
          /\ alone.chans[i].rec
          /\ alone.chans[i].recvs < MaxTryRecv
          /\ alone' = [alone EXCEPT !.chans[i] = OnceRec_try_recv(@, v)]
    /\ IdleButAlone

\* the receiver is dropped
C_RecDrop ==
    /\ \E i \in DOMAIN alone.chans :
          /\ alone.chans[i].rec
          /\ alone' = [alone EXCEPT !.chans[i] = OnceRec_drop(@)]
    /\ IdleButAlone

NextC == C_New \/ C_Send \/ C_SenderDrop \/ C_TryRecv \/ C_RecDrop

SpecC == InitC /\ [][NextC]_<<varsR, varsE>>

\* C40: for every order of the sender's actions (send, or drop without
\* sending) and the receiver's actions (try_recv any number of times, then
\* drop) the allocation of the channel is freed exactly once, by the endpoint
\* that acts last, and no unreachable!() arm is reached
C40_FreedOnceByTheLast ==
    \A i \in DOMAIN alone.chans :
        LET ch == alone.chans[i]
        IN  /\ ~ch.unreachable /\ ~ch.dangling
            /\ ch.frees <= 1
            /\ (ch.frees = 1) <=> (~ch.snd /\ ~ch.rec)
            /\ (ch.frees = 1) => (Len(ch.left) = 2 /\ ch.freed_by = ch.left[2])
            /\ (ch.frees = 0) => ch.state # FREED

\* try_recv answers Empty before anything happened, Disconnected after the
\* sender was dropped, and Ok only after a send
C40_TryRecvAnswers ==
    \A i \in DOMAIN alone.chans :
        LET ch == alone.chans[i]
        IN  /\ ch.got.res = "Ok" => ch.state \in {DONE, FREED}
            /\ ch.got.res = "Disconnected" => ch.state \in {DROP_SND, FREED}
            /\ ch.got.res = "Empty" => ch.recvs >= 1

\* one channel was freed by its sender after the receiver had looked and
\* left, another by its receiver after it was given the message
C40_Witness ==
    /\ \E i \in DOMAIN alone.chans :
          LET ch == alone.chans[i]
          IN  ch.frees = 1 /\ ch.freed_by = "snd" /\ ch.recvs >= 1
    /\ \E i \in DOMAIN alone.chans :
          LET ch == alone.chans[i]
          IN  /\ ch.frees = 1 /\ ch.freed_by = "rec" /\ ch.left = <<"snd", "rec">>
              /\ ch.got.res = "Ok" /\ ch.recvs = 1

====
